---- MODULE Spec2Model ----
(***************************************************************************)
(* Model of local-proxy: the blocklist rule store and matcher              *)
(* (db_service), and the request-log queue and writer (logging_service).   *)
(*                                                                         *)
(* Strings are sequences of one-character strings.  The alphabet is        *)
(*   letters a b A B, the blank, and . * ? ^ $ |                           *)
(* so that case folding, trimming, glob wildcards and the regular          *)
(* expression operators the code relies on all occur.                      *)
(***************************************************************************)
EXTENDS Integers, Sequences, FiniteSets, TLC

\* ------------------------------------------------------------------ bounds
\* Rows the rule table may hold in the explored runs.
MaxRules == 2
\* Largest value of the wall clock in runs where it advances by single steps.
MaxClock == 1
\* Capacity of logChannel in the explored runs (the program allocates 1000).
LogChannelCap == 2
\* LogRequest calls in a run.
MaxEvents == 3
\* Concurrent BlockDomain callers, each with a pattern of its own.
NumCallers == 3
\* Calls one concurrent caller may see fail before it has to wait its turn.
MaxAttempts == 2

\* ----------------------------------------------------------------- strings
\* strings.ToLower on one character (ASCII letters of the alphabet).
Lower(c) == IF c = "A" THEN "a" ELSE IF c = "B" THEN "b" ELSE c

\* strings.ToLower
ToLower(s) == [i \in 1..Len(s) |-> Lower(s[i])]

\* First index of s that is not a blank (Len(s)+1 when all are blanks).
RECURSIVE FirstNonSpace(_, _)
FirstNonSpace(s, i) ==
    IF i > Len(s) THEN i
    ELSE IF s[i] = " " THEN FirstNonSpace(s, i + 1) ELSE i

\* Last index of s that is not a blank (0 when all are blanks).
RECURSIVE LastNonSpace(_, _)
LastNonSpace(s, i) ==
    IF i < 1 THEN 0
    ELSE IF s[i] = " " THEN LastNonSpace(s, i - 1) ELSE i

\* strings.TrimSpace
TrimSpace(s) ==
    LET f == FirstNonSpace(s, 1)
        l == LastNonSpace(s, Len(s))
    IN  IF f > l THEN << >> ELSE SubSeq(s, f, l)

\* strings.ReplaceAll(s, old, new) for a one-character old.
RECURSIVE ReplaceAll(_, _, _)
ReplaceAll(s, old, new) ==
    IF s = << >> THEN << >>
    ELSE (IF Head(s) = old THEN new ELSE <<Head(s)>>) \o ReplaceAll(Tail(s), old, new)

\* ------------------------------------------------- regexp (Go, Perl syntax)
\* The operators of the alphabet: repetition and alternation.
IsRepeatOp(c) == c = "*" \/ c = "?"

\* The alternatives of a pattern: the pattern split at every "|".
RECURSIVE SplitAlt(_, _)
SplitAlt(s, cur) ==
    IF s = << >> THEN <<cur>>
    ELSE IF Head(s) = "|" THEN <<cur>> \o SplitAlt(Tail(s), << >>)
    ELSE SplitAlt(Tail(s), Append(cur, Head(s)))

\* One alternative parsed left to right into pieces [atom, q], q one of
\* "1" (once), "?" (optional), "*" (any number).  A repetition operator may be
\* followed by one "?" (non-greedy, same matches).  The result is <<ok, pieces>>;
\* ok is FALSE for a repetition operator with nothing to repeat ("missing
\* argument to repetition operator") or one that follows another repetition
\* ("invalid nested repetition operator").
RECURSIVE ParseAlt(_, _)
ParseAlt(s, acc) ==
    IF s = << >> THEN <<TRUE, acc>>
    ELSE IF IsRepeatOp(Head(s)) THEN <<FALSE, acc>>
    ELSE IF Len(s) >= 2 /\ IsRepeatOp(s[2])
         THEN LET rest == IF Len(s) >= 3 /\ s[3] = "?"
                          THEN SubSeq(s, 4, Len(s))
                          ELSE SubSeq(s, 3, Len(s))
              IN  IF rest # << >> /\ IsRepeatOp(Head(rest))
                  THEN <<FALSE, acc>>
                  ELSE ParseAlt(rest, Append(acc, [atom |-> s[1], q |-> s[2]]))
         ELSE ParseAlt(Tail(s), Append(acc, [atom |-> s[1], q |-> "1"]))

\* regexp.Compile succeeds.
Compiles(re) ==
    LET alts == SplitAlt(re, << >>)
    IN  \A k \in 1..Len(alts) : ParseAlt(alts[k], << >>)[1]

\* The positions after one match of atom at position i of text t.
AtomStep(atom, t, i) ==
    IF atom = "^" THEN (IF i = 1 THEN {i} ELSE {})
    ELSE IF atom = "$" THEN (IF i = Len(t) + 1 THEN {i} ELSE {})
    ELSE IF i <= Len(t) /\ (atom = "." \/ atom = t[i]) THEN {i + 1}
    ELSE {}

\* The positions after any number of matches of atom from position i.
RECURSIVE StarSteps(_, _, _)
StarSteps(atom, t, i) ==
    {i} \cup UNION {StarSteps(atom, t, j) : j \in AtomStep(atom, t, i) \ {i}}

\* Pieces k.. of ps match t from position i; when full, up to its end.
RECURSIVE MatchFrom(_, _, _, _, _)
MatchFrom(ps, k, t, i, full) ==
    IF k > Len(ps) THEN (~full \/ i = Len(t) + 1)
    ELSE LET a == ps[k].atom
             nexts == IF ps[k].q = "1" THEN AtomStep(a, t, i)
                      ELSE IF ps[k].q = "?" THEN {i} \cup AtomStep(a, t, i)
                      ELSE StarSteps(a, t, i)
         IN  \E j \in nexts : MatchFrom(ps, k + 1, t, j, full)

\* One alternative, once parsed, is found somewhere in t.
FoundIn(parsed, t) ==
    parsed[1] /\ \E i \in 1..(Len(t) + 1) : MatchFrom(parsed[2], 1, t, i, FALSE)

\* regexp.MatchString(re, t): <<matched, ok>>; the pattern is searched for
\* anywhere in t.  A pattern that does not compile gives <<FALSE, FALSE>>.
MatchString(re, t) ==
    LET alts == SplitAlt(re, << >>)
    IN  IF ~Compiles(re) THEN <<FALSE, FALSE>>
        ELSE <<\E k \in 1..Len(alts) : FoundIn(ParseAlt(alts[k], << >>), t), TRUE>>

\* -------------------------------------------------------------- rule store
\* The state of the program.
\*   blocked_domains  rows [domain, filter_type, created_at] of the rule table
\*   clock            the wall clock
\*   last             the last call made on the rule store and what it returned
\*   storage          what the rule store's database does for a call: "ok",
\*                    "nil" (no database handle) or "err" (the statement fails)
\*   logChannel       the events buffered in l.logChannel, oldest first
\*   chanState        l.logChannel: "nil", "open" or "closed"
\*   stopChan         l.stopChan: "nil", "open" or "closed"
\*   consumer         where the consumer goroutine is: "none", "select",
\*                    "process", "drain", "drainProcess" or "done"
\*   current          the event the consumer has received and not yet processed
\*   shutdown         where ServiceShutdown is: "idle", "waiting", "closing", "done"
\*   requests         the rows of the requests table, in insertion order
\*   outcome          what each LogRequest call so far did with its event:
\*                    "notready", "queued", "full" or "panic"
\*   queuedAtStop     the events that were in logChannel when stopChan was closed
\*   callers          the concurrent BlockDomain callers: [pc, attempts, ret]
\*   writeLock        the caller holding the storage engine's write lock, or 0
\*   dashboard        the last GetDashboardData call: its range key, the time
\*                    of the call, the order in which the map of buckets was
\*                    iterated, and the data returned
\*   isPaused         ProxyService.isPaused
\*   systemProxy      the operating system's HTTP(S) proxy setting: "off", "on"
\*                    (points at the local proxy on every network service) or
\*                    "partial" (some networksetup commands failed)
\*   proxyInstance    the proxy service: "nil", "started" or "stopped"
\*   setByResume      whether the last successful call among ResumeProxy and
\*                    PauseProxy was a ResumeProxy
\*   proxyLast        the last call on the proxy service: its name, whether it
\*                    returned an error, and the system command it ran
\*   connects         the CONNECT requests handled so far: host, whether the
\*                    handler panicked, port, host without port, the matcher's
\*                    answer, and the event its LogRequest call created (0
\*                    while that call has not run)
\*   spawned          the CONNECT requests whose `go LogRequest` goroutine has
\*                    not run yet
VARIABLES blocked_domains, clock, last, storage,
          logChannel, chanState, stopChan, consumer, current, shutdown,
          requests, outcome, queuedAtStop,
          callers, writeLock,
          dashboard,
          isPaused, systemProxy, proxyInstance, setByResume, proxyLast,
          connects, spawned

ruleVars == <<blocked_domains, clock, last, storage>>
logVars == <<logChannel, chanState, stopChan, consumer, current, shutdown,
             requests, outcome, queuedAtStop>>
concVars == <<callers, writeLock>>
dashVars == <<dashboard>>
proxyVars == <<isPaused, systemProxy, proxyInstance, setByResume, proxyLast,
               connects, spawned>>
vars == <<ruleVars, logVars, concVars, dashVars, proxyVars>>

\* Patterns callers pass in the explored runs: blank, blank-padded mixed case,
\* a glob wildcard, and the regular-expression operators | and ^.
RawInputs ==
    { <<" ">>, <<" ", "A", "b">>, <<"*", ".", "a">>, <<"a", "|", "b">>, <<"^", "a">> }

\* Patterns the operations are evaluated on in every reachable state.
Patterns ==
    RawInputs \cup { << >>, <<"a", "b">>, <<"a", "?">>, <<"b", "$">>, <<"a", "*", "*">> }

\* Dialects callers pass; "invalid" stands for any unrecognized value.
TypeInputs == {"exact", "glob", "regex", "invalid"}

\* Hostnames the matcher is evaluated on in every reachable state.
Hosts ==
    { << >>, <<" ", "A", "b">>, <<"A", "B">>, <<"a">>, <<"b", "a">>, <<"b", ".", "a">>,
      <<"a", "a", "b">>, <<"^", "a">>, <<"a", "|", "b">> }

\* matchGlob: "*" becomes ".*", "?" becomes ".", the result is wrapped in ^ $
\* and searched for with regexp.MatchString.
matchGlob(text, pattern) ==
    LET r1 == ReplaceAll(pattern, "*", <<".", "*">>)
        r2 == ReplaceAll(r1, "?", <<".">>)
        regexPattern == <<"^">> \o r2 \o <<"$">>
    IN  MatchString(regexPattern, text)

\* Variant of matchRegex that anchors the pattern at both ends; C5 must
\* tell it from matchRegex.
matchRegex_Anchored(text, pattern) ==
    MatchString(<<"^">> \o pattern \o <<"$">>, text)

\* matchRegex: the stored pattern as it is.
matchRegex(text, pattern) == MatchString(pattern, text)

\* Variant of the switch in which an exact rule also matches the candidates
\* that end with its pattern; C21 must tell it from RowMatches.
RowMatches_ExactSuffix(row, domain) ==
    IF row.filter_type = "exact"
    THEN /\ Len(domain) >= Len(row.domain)
         /\ SubSeq(domain, Len(domain) - Len(row.domain) + 1, Len(domain)) = ToLower(row.domain)
    ELSE IF row.filter_type = "glob" THEN matchGlob(domain, ToLower(row.domain))[1]
    ELSE IF row.filter_type = "regex" THEN matchRegex(domain, row.domain)[1]
    ELSE FALSE

\* The switch on filter_type in the row loop of IsDomainBlocked: the row
\* matches the normalized domain.
RowMatches(row, domain) ==
    IF row.filter_type = "exact" THEN domain = ToLower(row.domain)
    ELSE IF row.filter_type = "glob" THEN matchGlob(domain, ToLower(row.domain))[1]
    ELSE IF row.filter_type = "regex" THEN matchRegex(domain, row.domain)[1]
    ELSE FALSE

\* Variant of IsDomainBlocked that compares the candidate in the casing it
\* came in; C3 must tell it from IsDomainBlocked.
IsDomainBlocked_CaseSensitive(db, domain, st) ==
    IF st = "nil" THEN FALSE
    ELSE LET d == TrimSpace(domain)
         IN  IF d = << >> THEN FALSE
             ELSE IF st = "err" THEN FALSE
             ELSE \E row \in db : RowMatches(row, d)

\* The orders in which a query may return the rows of a table when the
\* statement does not fix their order.
RECURSIVE Scans(_)
Scans(db) ==
    IF db = {} THEN {<< >>}
    ELSE UNION {{<<row>> \o rest : rest \in Scans(db \ {row})} : row \in db}

\* Variant of the row loop in which the row scanned last decides; C22 must
\* tell it from ScanRules.
RECURSIVE ScanRules_LastRowDecides(_, _)
ScanRules_LastRowDecides(rows, domain) ==
    IF rows = << >> THEN FALSE
    ELSE IF Len(rows) = 1 THEN RowMatches(rows[1], domain)
    ELSE ScanRules_LastRowDecides(Tail(rows), domain)

\* The row loop of IsDomainBlocked over the rows in the order the query
\* returned them: true at the first row that matches, false after the last.
RECURSIVE ScanRules(_, _)
ScanRules(rows, domain) ==
    IF rows = << >> THEN FALSE
    ELSE IF RowMatches(Head(rows), domain) THEN TRUE
    ELSE ScanRules(Tail(rows), domain)

\* IsDomainBlocked.  st is what storage does for the call: "ok", "nil" (no
\* service or no database handle) or "err" (the query fails).
IsDomainBlocked(db, domain, st) ==
    IF st = "nil" THEN FALSE
    ELSE LET d == ToLower(TrimSpace(domain))
         IN  IF d = << >> THEN FALSE
             ELSE IF st = "err" THEN FALSE
             ELSE \E row \in db : RowMatches(row, d)

\* Variant of the insert that replaces the row under an existing primary
\* key; C7 must tell it from InsertOrIgnore.
InsertOrReplace(db, domain, filterType, now) ==
    {row \in db : row.domain # domain}
        \cup {[domain |-> domain, filter_type |-> filterType, created_at |-> now]}

\* INSERT OR IGNORE INTO blocked_domains (domain, filter_type): the row is
\* added with created_at = CURRENT_TIMESTAMP unless the primary key exists.
InsertOrIgnore(db, domain, filterType, now) ==
    IF \E row \in db : row.domain = domain THEN db
    ELSE db \cup {[domain |-> domain, filter_type |-> filterType, created_at |-> now]}

\* Variant of BlockDomainWithType that stores a regex without compiling it;
\* C8 must tell it from BlockDomainWithType.
BlockDomainWithType_NoCompile(db, domain, filterType, now, st) ==
    IF st = "nil" THEN [ret |-> FALSE, db |-> db]
    ELSE LET trimmed == TrimSpace(domain)
             ft == IF filterType \in {"exact", "glob", "regex"} THEN filterType ELSE "exact"
             d == IF ft \in {"exact", "glob"} THEN ToLower(trimmed) ELSE trimmed
         IN  IF trimmed = << >> THEN [ret |-> FALSE, db |-> db]
             ELSE IF st = "err" THEN [ret |-> FALSE, db |-> db]
             ELSE [ret |-> TRUE, db |-> InsertOrIgnore(db, d, ft, now)]

\* Variant of BlockDomainWithType that returns true when Exec fails; C9 must
\* tell it from BlockDomainWithType.
BlockDomainWithType_ExecErrorIgnored(db, domain, filterType, now, st) ==
    IF st = "nil" THEN [ret |-> FALSE, db |-> db]
    ELSE LET trimmed == TrimSpace(domain)
             ft == IF filterType \in {"exact", "glob", "regex"} THEN filterType ELSE "exact"
             d == IF ft \in {"exact", "glob"} THEN ToLower(trimmed) ELSE trimmed
         IN  IF trimmed = << >> THEN [ret |-> FALSE, db |-> db]
             ELSE IF ft = "regex" /\ ~Compiles(d) THEN [ret |-> FALSE, db |-> db]
             ELSE IF st = "err" THEN [ret |-> TRUE, db |-> db]
             ELSE [ret |-> TRUE, db |-> InsertOrIgnore(db, d, ft, now)]

\* Variant of BlockDomainWithType that lower-cases the pattern in every
\* dialect; C23 must tell it from BlockDomainWithType.
BlockDomainWithType_LowerAll(db, domain, filterType, now, st) ==
    IF st = "nil" THEN [ret |-> FALSE, db |-> db]
    ELSE LET trimmed == TrimSpace(domain)
             ft == IF filterType \in {"exact", "glob", "regex"} THEN filterType ELSE "exact"
             d == ToLower(trimmed)
         IN  IF trimmed = << >> THEN [ret |-> FALSE, db |-> db]
             ELSE IF ft = "regex" /\ ~Compiles(d) THEN [ret |-> FALSE, db |-> db]
             ELSE IF st = "err" THEN [ret |-> FALSE, db |-> db]
             ELSE [ret |-> TRUE, db |-> InsertOrIgnore(db, d, ft, now)]

\* Variant of BlockDomainWithType that takes an unrecognized filter type for
\* glob; C24 must tell it from BlockDomainWithType.
BlockDomainWithType_CoerceGlob(db, domain, filterType, now, st) ==
    IF st = "nil" THEN [ret |-> FALSE, db |-> db]
    ELSE LET trimmed == TrimSpace(domain)
             ft == IF filterType \in {"exact", "glob", "regex"} THEN filterType ELSE "glob"
             d == IF ft \in {"exact", "glob"} THEN ToLower(trimmed) ELSE trimmed
         IN  IF trimmed = << >> THEN [ret |-> FALSE, db |-> db]
             ELSE IF ft = "regex" /\ ~Compiles(d) THEN [ret |-> FALSE, db |-> db]
             ELSE IF st = "err" THEN [ret |-> FALSE, db |-> db]
             ELSE [ret |-> TRUE, db |-> InsertOrIgnore(db, d, ft, now)]

\* Variant of BlockDomainWithType that returns true without the INSERT; C30
\* must tell it from BlockDomainWithType.
BlockDomainWithType_NoInsert(db, domain, filterType, now, st) ==
    IF st = "nil" THEN [ret |-> FALSE, db |-> db]
    ELSE LET trimmed == TrimSpace(domain)
             ft == IF filterType \in {"exact", "glob", "regex"} THEN filterType ELSE "exact"
             d == IF ft \in {"exact", "glob"} THEN ToLower(trimmed) ELSE trimmed
         IN  IF trimmed = << >> THEN [ret |-> FALSE, db |-> db]
             ELSE IF ft = "regex" /\ ~Compiles(d) THEN [ret |-> FALSE, db |-> db]
             ELSE IF st = "err" THEN [ret |-> FALSE, db |-> db]
             ELSE [ret |-> TRUE, db |-> db]

\* BlockDomainWithType: [ret, db].
BlockDomainWithType(db, domain, filterType, now, st) ==
    IF st = "nil" THEN [ret |-> FALSE, db |-> db]
    ELSE LET trimmed == TrimSpace(domain)
             ft == IF filterType \in {"exact", "glob", "regex"} THEN filterType ELSE "exact"
             d == IF ft \in {"exact", "glob"} THEN ToLower(trimmed) ELSE trimmed
         IN  IF trimmed = << >> THEN [ret |-> FALSE, db |-> db]
             ELSE IF ft = "regex" /\ ~Compiles(d) THEN [ret |-> FALSE, db |-> db]
             ELSE IF st = "err" THEN [ret |-> FALSE, db |-> db]
             ELSE [ret |-> TRUE, db |-> InsertOrIgnore(db, d, ft, now)]

\* BlockDomain
BlockDomain(db, domain, now, st) == BlockDomainWithType(db, domain, "exact", now, st)

\* Variant of UnblockDomain that deletes by the trimmed pattern in the casing
\* it came in; C6 must tell it from UnblockDomain.
UnblockDomain_CaseSensitive(db, domain, st) ==
    IF st = "nil" THEN [ret |-> FALSE, db |-> db]
    ELSE LET d == TrimSpace(domain)
         IN  IF d = << >> THEN [ret |-> FALSE, db |-> db]
             ELSE IF st = "err" THEN [ret |-> FALSE, db |-> db]
             ELSE [ret |-> TRUE, db |-> {row \in db : row.domain # d}]

\* Variant of UnblockDomain whose DELETE has no WHERE clause; C34 must tell
\* it from UnblockDomain.
UnblockDomain_DeleteAll(db, domain, st) ==
    IF st = "nil" THEN [ret |-> FALSE, db |-> db]
    ELSE LET d == ToLower(TrimSpace(domain))
         IN  IF d = << >> THEN [ret |-> FALSE, db |-> db]
             ELSE IF st = "err" THEN [ret |-> FALSE, db |-> db]
             ELSE [ret |-> TRUE, db |-> {}]

\* UnblockDomain: [ret, db]; DELETE FROM blocked_domains WHERE domain = ?.
UnblockDomain(db, domain, st) ==
    IF st = "nil" THEN [ret |-> FALSE, db |-> db]
    ELSE LET d == ToLower(TrimSpace(domain))
         IN  IF d = << >> THEN [ret |-> FALSE, db |-> db]
             ELSE IF st = "err" THEN [ret |-> FALSE, db |-> db]
             ELSE [ret |-> TRUE, db |-> {row \in db : row.domain # d}]

\* ORDER BY created_at DESC, one row placed: row goes behind every row of the
\* sorted prefix whose created_at is not smaller.
RECURSIVE InsertDesc(_, _)
InsertDesc(sorted, row) ==
    IF sorted = << >> THEN <<row>>
    ELSE IF Head(sorted).created_at >= row.created_at
         THEN <<Head(sorted)>> \o InsertDesc(Tail(sorted), row)
         ELSE <<row>> \o sorted

\* Variant of OrderByCreatedAtDesc that leaves the rows as the table scan
\* produced them; C25 must tell it from OrderByCreatedAtDesc.
OrderByCreatedAtDesc_AsScanned(rows) == rows

\* ORDER BY created_at DESC over the rows in the order the table scan produced
\* them.  created_at has one-second resolution and the statement names no
\* second key, so rows of the same second stay in scan order, which SQL
\* leaves unspecified.
RECURSIVE OrderByCreatedAtDesc(_)
OrderByCreatedAtDesc(rows) ==
    IF rows = << >> THEN << >>
    ELSE InsertDesc(OrderByCreatedAtDesc(SubSeq(rows, 1, Len(rows) - 1)),
                    rows[Len(rows)])

\* Variant of ListBlockedDomains that reports a failing query by a one-entry
\* list; C26 must tell it from ListBlockedDomains.
ListBlockedDomains_ErrorEntry(db, st, scan) ==
    IF st = "nil" THEN << >>
    ELSE IF st = "err" THEN << <<"e", "r", "r">> >>
    ELSE LET rows == OrderByCreatedAtDesc(scan)
         IN  [i \in 1..Len(rows) |-> rows[i].domain]

\* Variant of ListBlockedDomains whose SELECT has no ORDER BY; C35 must tell
\* it from ListBlockedDomains.
ListBlockedDomains_AsScanned(db, st, scan) ==
    IF st = "nil" THEN << >>
    ELSE IF st = "err" THEN << >>
    ELSE [i \in 1..Len(scan) |-> scan[i].domain]

\* ListBlockedDomains: the stored patterns, SELECT domain ... ORDER BY
\* created_at DESC; an empty list without a database handle or when the
\* query fails.  scan is the order in which the table scan produced the rows.
ListBlockedDomains(db, st, scan) ==
    IF st = "nil" THEN << >>
    ELSE IF st = "err" THEN << >>
    ELSE LET rows == OrderByCreatedAtDesc(scan)
         IN  [i \in 1..Len(rows) |-> rows[i].domain]

\* ListBlockedDomainsWithInfo: the stored rules as BlockedDomainInfo records,
\* in the same order.
ListBlockedDomainsWithInfo(db, st, scan) ==
    IF st = "nil" THEN << >>
    ELSE IF st = "err" THEN << >>
    ELSE LET rows == OrderByCreatedAtDesc(scan)
         IN  [i \in 1..Len(rows) |->
                 [Domain |-> rows[i].domain, FilterType |-> rows[i].filter_type,
                  CreatedAt |-> rows[i].created_at]]

\* NewDBService: an empty table, nothing called yet.
RuleInit ==
    /\ blocked_domains = {}
    /\ clock = 0
    /\ storage = "ok"
    /\ last = [op |-> "none", arg |-> << >>, ftype |-> "", ret |-> FALSE,
               st |-> "ok"]

\* A caller invokes BlockDomainWithType (BlockDomain is the "exact" case)
\* with one of the given patterns and dialects.
BlockDomainWithTypeCallOn(inputs, types) ==
    \E p \in inputs, t \in types :
        LET r == BlockDomainWithType(blocked_domains, p, t, clock, storage)
        IN  /\ Cardinality(r.db) <= MaxRules
            /\ blocked_domains' = r.db
            /\ last' = [op |-> "block", arg |-> p, ftype |-> t, ret |-> r.ret,
                        st |-> storage]
            /\ UNCHANGED <<clock, storage, logVars, concVars, dashVars, proxyVars>>

\* A caller invokes BlockDomainWithType.
BlockDomainWithTypeCall == BlockDomainWithTypeCallOn(RawInputs, TypeInputs)

\* A caller invokes UnblockDomain.
UnblockDomainCall ==
    \E p \in RawInputs :
        LET r == UnblockDomain(blocked_domains, p, storage)
        IN  /\ blocked_domains' = r.db
            /\ last' = [op |-> "unblock", arg |-> p, ftype |-> "", ret |-> r.ret,
                        st |-> storage]
            /\ UNCHANGED <<clock, storage, logVars, concVars, dashVars, proxyVars>>

\* Hostnames callers ask about in the explored runs.
AskedHosts == { << >>, <<" ", "A", "b">>, <<"b", ".", "a">>, <<"^", "a">> }

\* A caller invokes IsDomainBlocked on one of the given hosts.
IsDomainBlockedCallOn(hosts) ==
    \E h \in hosts :
        /\ last' = [op |-> "isblocked", arg |-> h, ftype |-> "",
                    ret |-> IsDomainBlocked(blocked_domains, h, storage),
                    st |-> storage]
        /\ UNCHANGED <<blocked_domains, clock, storage, logVars, concVars, dashVars, proxyVars>>

\* A caller invokes IsDomainBlocked.
IsDomainBlockedCall == IsDomainBlockedCallOn(AskedHosts)

\* Time passes.
Tick ==
    /\ clock < MaxClock
    /\ clock' = clock + 1
    /\ UNCHANGED <<blocked_domains, last, storage, logVars, concVars, dashVars, proxyVars>>

RuleNext ==
    \/ BlockDomainWithTypeCall
    \/ UnblockDomainCall
    \/ IsDomainBlockedCall
    \/ Tick

\* What storage does for the calls that follow changes: the service has no
\* database handle (initDBs failed in ServiceStartup), statements fail (the
\* handle was closed by ServiceShutdown, or the engine reports an error), or
\* storage works.
StorageChanges ==
    /\ \E st \in {"ok", "nil", "err"} \ {storage} : storage' = st
    /\ UNCHANGED <<blocked_domains, clock, last, logVars, concVars, dashVars, proxyVars>>

\* A caller invokes ListBlockedDomains.
ListBlockedDomainsCall ==
    \E scan \in Scans(blocked_domains) :
        /\ last' = [op |-> "list", arg |-> << >>, ftype |-> "",
                    ret |-> ListBlockedDomains(blocked_domains, storage, scan),
                    st |-> storage]
        /\ UNCHANGED <<blocked_domains, clock, storage, logVars, concVars, dashVars, proxyVars>>

\* A caller invokes ListBlockedDomainsWithInfo.
ListBlockedDomainsWithInfoCall ==
    \E scan \in Scans(blocked_domains) :
        /\ last' = [op |-> "listinfo", arg |-> << >>, ftype |-> "",
                    ret |-> ListBlockedDomainsWithInfo(blocked_domains, storage, scan),
                    st |-> storage]
        /\ UNCHANGED <<blocked_domains, clock, storage, logVars, concVars, dashVars, proxyVars>>

\* The patterns and dialects callers pass in the runs with list calls and
\* failing storage.
StoreInputs == { <<" ", "A", "b">>, <<"*", ".", "a">>, <<"^", "a">> }
StoreTypes == {"glob", "invalid"}

StoreNext ==
    \/ BlockDomainWithTypeCallOn(StoreInputs, StoreTypes)
    \/ UnblockDomainCall
    \/ IsDomainBlockedCall
    \/ Tick
    \/ StorageChanges
    \/ ListBlockedDomainsCall
    \/ ListBlockedDomainsWithInfoCall

\* -------------------------------------------------------- log queue, writer
\* No event: the consumer holds none.
NoEvent == [id |-> 0, Approved |-> FALSE]

\* Variant of processLogRequest that stores every event as rejected; C16
\* must tell it from processLogRequest.
processLogRequest_AlwaysRejected(table, logReq, now, st) ==
    IF st \in {"nil", "err"} THEN table
    ELSE Append(table, [timestamp |-> now, decision |-> "rejected", event |-> logReq.id])

\* Variant of processLogRequest that stamps the row with the epoch instead of
\* the time of the call; C27 must tell it from processLogRequest.
processLogRequest_EpochStamp(table, logReq, now, st) ==
    IF st \in {"nil", "err"} THEN table
    ELSE Append(table, [timestamp |-> 0,
                        decision |-> IF logReq.Approved THEN "approved" ELSE "rejected",
                        event |-> logReq.id])

\* Variant of processLogRequest that replaces the rows of the table by the
\* new row; C29 must tell it from processLogRequest.
processLogRequest_KeepLatest(table, logReq, now, st) ==
    IF st \in {"nil", "err"} THEN table
    ELSE <<[timestamp |-> now,
            decision |-> IF logReq.Approved THEN "approved" ELSE "rejected",
            event |-> logReq.id]>>

\* processLogRequest: the requests table after the call.  st is what storage
\* does for the call: "ok", "nil" (no database handle) or "err" (the insert
\* fails and is only logged).
processLogRequest(table, logReq, now, st) ==
    IF st = "nil" THEN table
    ELSE LET decision == IF logReq.Approved THEN "approved" ELSE "rejected"
             timestamp == now
         IN  IF st = "err" THEN table
             ELSE Append(table, [timestamp |-> timestamp, decision |-> decision,
                                 event |-> logReq.id])

\* The service before ServiceStartup: no channels, no consumer, no rows.
LogInit ==
    /\ logChannel = << >>
    /\ chanState = "nil"
    /\ stopChan = "nil"
    /\ consumer = "none"
    /\ current = NoEvent
    /\ shutdown = "idle"
    /\ requests = << >>
    /\ outcome = << >>
    /\ queuedAtStop = {}

\* A LogRequest call has panicked: the process is gone.
Panicked == \E k \in 1..Len(outcome) : outcome[k] = "panic"

\* ServiceStartup: makes the channels and starts the consumer goroutine.
ServiceStartup ==
    /\ chanState = "nil"
    /\ chanState' = "open"
    /\ stopChan' = "open"
    /\ consumer' = "select"
    /\ UNCHANGED <<logChannel, current, shutdown, requests, outcome, queuedAtStop,
                   ruleVars, concVars, dashVars, proxyVars>>

\* Variant of LogRequestOutcome in which the send is taken whenever the
\* channel is open, whatever it holds; C12 must tell it from LogRequestOutcome.
LogRequestOutcome_Unbounded ==
    IF chanState = "nil" THEN "notready"
    ELSE IF chanState = "closed" THEN "panic"
    ELSE "queued"

\* LogRequest: what the call does with its event in the present state of
\* l.logChannel.  The send of the select panics on a closed channel, is taken
\* when the buffer has room, and otherwise the default case drops the event.
LogRequestOutcome ==
    IF chanState = "nil" THEN "notready"
    ELSE IF chanState = "closed" THEN "panic"
    ELSE IF Len(logChannel) < LogChannelCap THEN "queued"
    ELSE "full"

\* The body of LogRequest for an event with the given Approved flag: the
\* select on l.logChannel and what it leaves of the log service's state.
LogRequestSend(approved) ==
    /\ ~Panicked
    /\ Len(outcome) < MaxEvents
    /\ LET logReq == [id |-> Len(outcome) + 1, Approved |-> approved]
       IN  logChannel' = IF LogRequestOutcome = "queued"
                         THEN Append(logChannel, logReq) ELSE logChannel
    /\ outcome' = Append(outcome, LogRequestOutcome)
    /\ UNCHANGED <<chanState, stopChan, consumer, current, shutdown, requests,
                   queuedAtStop>>

\* A producer calls LogRequest.
LogRequest ==
    /\ \E approved \in BOOLEAN : LogRequestSend(approved)
    /\ UNCHANGED <<ruleVars, concVars, dashVars, proxyVars>>

\* Variant of the receive that leaves the event in logChannel; C13 must tell
\* it from ConsumerReceive.
ConsumerReceive_Peek ==
    /\ ~Panicked
    /\ consumer = "select"
    /\ logChannel # << >>
    /\ current' = Head(logChannel)
    /\ consumer' = "process"
    /\ UNCHANGED <<logChannel, chanState, stopChan, shutdown, requests, outcome,
                   queuedAtStop, ruleVars, concVars, dashVars, proxyVars>>

\* Variant of the receive that takes the event sent last; C28 must tell it
\* from ConsumerReceive.
ConsumerReceive_Newest ==
    /\ ~Panicked
    /\ consumer = "select"
    /\ logChannel # << >>
    /\ current' = logChannel[Len(logChannel)]
    /\ logChannel' = SubSeq(logChannel, 1, Len(logChannel) - 1)
    /\ consumer' = "process"
    /\ UNCHANGED <<chanState, stopChan, shutdown, requests, outcome, queuedAtStop,
                   ruleVars, concVars, dashVars, proxyVars>>

\* The consumer's outer select takes an event from logChannel.
ConsumerReceive ==
    /\ ~Panicked
    /\ consumer = "select"
    /\ logChannel # << >>
    /\ current' = Head(logChannel)
    /\ logChannel' = Tail(logChannel)
    /\ consumer' = "process"
    /\ UNCHANGED <<chanState, stopChan, shutdown, requests, outcome, queuedAtStop,
                   ruleVars, concVars, dashVars, proxyVars>>

\* Variant of the stop case in which the goroutine returns without draining
\* logChannel; C1 must tell it from ConsumerStop.
ConsumerStop_NoDrain ==
    /\ ~Panicked
    /\ consumer = "select"
    /\ stopChan = "closed"
    /\ consumer' = "done"
    /\ UNCHANGED <<logChannel, chanState, stopChan, current, shutdown, requests,
                   outcome, queuedAtStop, ruleVars, concVars, dashVars, proxyVars>>

\* The consumer's outer select takes the stop case and enters the drain loop.
ConsumerStop ==
    /\ ~Panicked
    /\ consumer = "select"
    /\ stopChan = "closed"
    /\ consumer' = "drain"
    /\ UNCHANGED <<logChannel, chanState, stopChan, current, shutdown, requests,
                   outcome, queuedAtStop, ruleVars, concVars, dashVars, proxyVars>>

\* The drain loop takes an event from logChannel.
ConsumerDrainReceive ==
    /\ ~Panicked
    /\ consumer = "drain"
    /\ logChannel # << >>
    /\ current' = Head(logChannel)
    /\ logChannel' = Tail(logChannel)
    /\ consumer' = "drainProcess"
    /\ UNCHANGED <<chanState, stopChan, shutdown, requests, outcome, queuedAtStop,
                   ruleVars, concVars, dashVars, proxyVars>>

\* The drain loop finds logChannel empty: the goroutine returns (wg.Done).
ConsumerReturn ==
    /\ ~Panicked
    /\ consumer = "drain"
    /\ logChannel = << >>
    /\ consumer' = "done"
    /\ UNCHANGED <<logChannel, chanState, stopChan, current, shutdown, requests,
                   outcome, queuedAtStop, ruleVars, concVars, dashVars, proxyVars>>

\* The consumer runs processLogRequest on the event it holds.
ConsumerProcess ==
    /\ ~Panicked
    /\ consumer \in {"process", "drainProcess"}
    /\ requests' = processLogRequest(requests, current, clock, storage)
    /\ current' = NoEvent
    /\ consumer' = IF consumer = "process" THEN "select" ELSE "drain"
    /\ UNCHANGED <<logChannel, chanState, stopChan, shutdown, outcome, queuedAtStop,
                   ruleVars, concVars, dashVars, proxyVars>>

\* ServiceShutdown closes stopChan and starts waiting for the consumer.
ShutdownSignal ==
    /\ ~Panicked
    /\ shutdown = "idle"
    /\ stopChan = "open"
    /\ stopChan' = "closed"
    /\ shutdown' = "waiting"
    /\ queuedAtStop' = {logChannel[k].id : k \in 1..Len(logChannel)}
    /\ UNCHANGED <<logChannel, chanState, consumer, current, requests, outcome,
                   ruleVars, concVars, dashVars, proxyVars>>

\* wg.Wait returns: the consumer goroutine has finished.
ShutdownWaitReturns ==
    /\ ~Panicked
    /\ shutdown = "waiting"
    /\ consumer = "done"
    /\ shutdown' = "closing"
    /\ UNCHANGED <<logChannel, chanState, stopChan, consumer, current, requests,
                   outcome, queuedAtStop, ruleVars, concVars, dashVars, proxyVars>>

\* ServiceShutdown closes logChannel and returns.
ShutdownClose ==
    /\ ~Panicked
    /\ shutdown = "closing"
    /\ chanState' = "closed"
    /\ shutdown' = "done"
    /\ UNCHANGED <<logChannel, stopChan, consumer, current, requests, outcome,
                   queuedAtStop, ruleVars, concVars, dashVars, proxyVars>>

LogNext ==
    \/ ServiceStartup
    \/ LogRequest
    \/ ConsumerReceive
    \/ ConsumerStop
    \/ ConsumerDrainReceive
    \/ ConsumerReturn
    \/ ConsumerProcess
    \/ ShutdownSignal
    \/ ShutdownWaitReturns
    \/ ShutdownClose
    \/ Tick

\* ----------------------------------------------- concurrent BlockDomain calls
\* The pattern of caller i: each caller has its own.
CallerPattern(i) == [k \in 1..i |-> "a"]

\* The callers before any of them has called.
ConcInit ==
    /\ callers = [i \in 1..NumCallers |-> [pc |-> "idle", attempts |-> 0, ret |-> FALSE]]
    /\ writeLock = 0

\* Caller i calls BlockDomain and its INSERT takes the engine's write lock.
ExecBegins(i) ==
    /\ callers[i].pc = "idle"
    /\ writeLock = 0
    /\ writeLock' = i
    /\ callers' = [callers EXCEPT ![i].pc = "exec"]
    /\ UNCHANGED <<ruleVars, logVars, dashVars, proxyVars>>

\* Caller i calls BlockDomain while another caller holds the write lock until
\* the busy timeout expires: Exec fails, and the caller will call again.
ExecBusy(i) ==
    /\ callers[i].pc = "idle"
    /\ writeLock \notin {0, i}
    /\ callers[i].attempts < MaxAttempts
    /\ LET r == BlockDomain(blocked_domains, CallerPattern(i), clock, "err")
       IN  /\ blocked_domains' = r.db
           /\ callers' = [callers EXCEPT ![i] =
                              [pc |-> IF r.ret THEN "done" ELSE "idle",
                               attempts |-> @.attempts + 1, ret |-> r.ret]]
    /\ UNCHANGED <<clock, last, writeLock, storage, logVars, dashVars, proxyVars>>

\* Caller i's INSERT runs and commits; the write lock is released.
ExecCommits(i) ==
    /\ callers[i].pc = "exec"
    /\ LET r == BlockDomain(blocked_domains, CallerPattern(i), clock, "ok")
       IN  /\ blocked_domains' = r.db
           /\ callers' = [callers EXCEPT ![i] =
                              [pc |-> IF r.ret THEN "done" ELSE "idle",
                               attempts |-> @.attempts, ret |-> r.ret]]
    /\ writeLock' = 0
    /\ UNCHANGED <<clock, last, storage, logVars, dashVars, proxyVars>>

ConcNext ==
    \/ \E i \in 1..NumCallers : ExecBegins(i)
    \/ \E i \in 1..NumCallers : ExecBusy(i)
    \/ \E i \in 1..NumCallers : ExecCommits(i)
    \/ Tick

\* ---------------------------------------------------------------- dashboard
\* Time is counted in seconds: a timestamp of the model is the program's
\* UnixMilli() without its last three digits, so that thirty days fit the
\* integers of the model checker.  time.Hour in that unit.
Hour == 60 * 60

\* The switch on timeRange that sets startTime, as a timestamp.
StartTimestamp(timeRange, now) ==
    IF timeRange = "1h" THEN now - 1 * Hour
    ELSE IF timeRange = "6h" THEN now - 6 * Hour
    ELSE IF timeRange = "24h" THEN now - 24 * Hour
    ELSE IF timeRange = "7d" THEN now - 7 * 24 * Hour
    ELSE IF timeRange = "30d" THEN now - 30 * 24 * Hour
    ELSE now - 24 * Hour

\* Variant of getIntervalMinutes that knows only the default; C18 must tell
\* it from getIntervalMinutes.
getIntervalMinutes_DefaultOnly(timeRange) == 60

\* getIntervalMinutes
getIntervalMinutes(timeRange) ==
    IF timeRange = "1h" THEN 5
    ELSE IF timeRange = "6h" THEN 30
    ELSE IF timeRange = "24h" THEN 60
    ELSE IF timeRange = "7d" THEN 360
    ELSE IF timeRange = "30d" THEN 1440
    ELSE 60

\* Go's integer division, which truncates toward zero.
GoDiv(a, b) == IF a >= 0 THEN a \div b ELSE -((-a) \div b)

\* The rows with the indices in S, newest first (rows of one timestamp in the
\* order a backward scan of the timestamp index gives them).
RECURSIVE OrderDesc(_, _)
OrderDesc(table, S) ==
    IF S = {} THEN << >>
    ELSE LET k == CHOOSE k \in S : \A j \in S :
                      \/ table[j].timestamp < table[k].timestamp
                      \/ (table[j].timestamp = table[k].timestamp /\ j <= k)
         IN  <<table[k]>> \o OrderDesc(table, S \ {k})

\* Variant of the query that leaves out the rows at the start of the range;
\* C19 must tell it from Query.
Query_StartExclusive(table, startTimestamp, endTimestamp) ==
    OrderDesc(table, {k \in 1..Len(table) :
                         /\ table[k].timestamp > startTimestamp
                         /\ table[k].timestamp <= endTimestamp})

\* SELECT ... FROM requests WHERE timestamp >= ? AND timestamp <= ?
\* ORDER BY timestamp DESC
Query(table, startTimestamp, endTimestamp) ==
    OrderDesc(table, {k \in 1..Len(table) :
                         /\ table[k].timestamp >= startTimestamp
                         /\ table[k].timestamp <= endTimestamp})

\* Variant of intervalTime that counts intervals from one second after the
\* epoch; C17 must tell it from IntervalTime.
IntervalTime_Shifted(timestamp, intervalMinutes) ==
    GoDiv(timestamp - 1, intervalMinutes * 60) * (intervalMinutes * 60) + 1

\* intervalTime: the time interval a row's timestamp belongs to.
IntervalTime(timestamp, intervalMinutes) ==
    GoDiv(timestamp, intervalMinutes * 60) * (intervalMinutes * 60)

\* Variant of ScanStart in which the map already holds a bucket for the epoch;
\* C37 must tell it from ScanStart.
ScanStart_EpochBucket ==
    [timeGroups |-> [k \in {0} |-> [Timestamp |-> 0, Count |-> 0, Approved |-> 0,
                                    Rejected |-> 0]],
     totalRequests |-> 0, approvedCount |-> 0, rejectedCount |-> 0, requests |-> << >>]

\* The state of the row loop before the first row.
ScanStart ==
    [timeGroups |-> [k \in {} |-> 0], totalRequests |-> 0, approvedCount |-> 0,
     rejectedCount |-> 0, requests |-> << >>]

\* Variant of the pass of the row loop that leaves a rejected row out of the
\* bucket's Rejected counter; C36 must tell it from ScanRow.
ScanRow_BucketOmitsRejected(acc, row, intervalMinutes) ==
    LET intervalTime == IntervalTime(row.timestamp, intervalMinutes)
        approved == row.decision = "approved"
        old == IF intervalTime \in DOMAIN acc.timeGroups
               THEN acc.timeGroups[intervalTime]
               ELSE [Timestamp |-> intervalTime, Count |-> 0, Approved |-> 0, Rejected |-> 0]
        new == [Timestamp |-> old.Timestamp,
                Count |-> old.Count + 1,
                Approved |-> IF approved THEN old.Approved + 1 ELSE old.Approved,
                Rejected |-> old.Rejected]
    IN  [timeGroups |-> [k \in DOMAIN acc.timeGroups \cup {intervalTime} |->
                             IF k = intervalTime THEN new ELSE acc.timeGroups[k]],
         totalRequests |-> acc.totalRequests + 1,
         approvedCount |-> IF approved THEN acc.approvedCount + 1 ELSE acc.approvedCount,
         rejectedCount |-> IF approved THEN acc.rejectedCount ELSE acc.rejectedCount + 1,
         requests |-> Append(acc.requests,
                             [Timestamp |-> row.timestamp, Decision |-> row.decision,
                              event |-> row.event])]

\* Variant of the pass of the row loop that counts a rejected row in its
\* bucket only; C15 must tell it from ScanRow.
ScanRow_TotalOfApproved(acc, row, intervalMinutes) ==
    LET intervalTime == IntervalTime(row.timestamp, intervalMinutes)
        approved == row.decision = "approved"
        old == IF intervalTime \in DOMAIN acc.timeGroups
               THEN acc.timeGroups[intervalTime]
               ELSE [Timestamp |-> intervalTime, Count |-> 0, Approved |-> 0, Rejected |-> 0]
        new == [Timestamp |-> old.Timestamp,
                Count |-> old.Count + 1,
                Approved |-> IF approved THEN old.Approved + 1 ELSE old.Approved,
                Rejected |-> IF approved THEN old.Rejected ELSE old.Rejected + 1]
    IN  [timeGroups |-> [k \in DOMAIN acc.timeGroups \cup {intervalTime} |->
                             IF k = intervalTime THEN new ELSE acc.timeGroups[k]],
         totalRequests |-> IF approved THEN acc.totalRequests + 1 ELSE acc.totalRequests,
         approvedCount |-> IF approved THEN acc.approvedCount + 1 ELSE acc.approvedCount,
         rejectedCount |-> IF approved THEN acc.rejectedCount ELSE acc.rejectedCount + 1,
         requests |-> Append(acc.requests,
                             [Timestamp |-> row.timestamp, Decision |-> row.decision,
                              event |-> row.event])]

\* One pass of the row loop of GetDashboardData.
ScanRow(acc, row, intervalMinutes) ==
    LET intervalTime == IntervalTime(row.timestamp, intervalMinutes)
        approved == row.decision = "approved"
        old == IF intervalTime \in DOMAIN acc.timeGroups
               THEN acc.timeGroups[intervalTime]
               ELSE [Timestamp |-> intervalTime, Count |-> 0, Approved |-> 0, Rejected |-> 0]
        new == [Timestamp |-> old.Timestamp,
                Count |-> old.Count + 1,
                Approved |-> IF approved THEN old.Approved + 1 ELSE old.Approved,
                Rejected |-> IF approved THEN old.Rejected ELSE old.Rejected + 1]
    IN  [timeGroups |-> [k \in DOMAIN acc.timeGroups \cup {intervalTime} |->
                             IF k = intervalTime THEN new ELSE acc.timeGroups[k]],
         totalRequests |-> acc.totalRequests + 1,
         approvedCount |-> IF approved THEN acc.approvedCount + 1 ELSE acc.approvedCount,
         rejectedCount |-> IF approved THEN acc.rejectedCount ELSE acc.rejectedCount + 1,
         requests |-> Append(acc.requests,
                             [Timestamp |-> row.timestamp, Decision |-> row.decision,
                              event |-> row.event])]

\* The row loop over the rows the query returned.
RECURSIVE ScanRows(_, _, _)
ScanRows(rows, acc, intervalMinutes) ==
    IF rows = << >> THEN acc
    ELSE ScanRows(Tail(rows), ScanRow(acc, Head(rows), intervalMinutes), intervalMinutes)

\* connections with the elements at i and j exchanged.
Swap(connections, i, j) ==
    [connections EXCEPT ![i] = connections[j], ![j] = connections[i]]

\* The inner loop of the sort, from j on.
RECURSIVE SortInner(_, _, _)
SortInner(connections, i, j) ==
    IF j > Len(connections) THEN connections
    ELSE SortInner(IF connections[i].Timestamp > connections[j].Timestamp
                   THEN Swap(connections, i, j) ELSE connections, i, j + 1)

\* The outer loop of the sort, from i on.
RECURSIVE SortOuter(_, _)
SortOuter(connections, i) ==
    IF i > Len(connections) - 1 THEN connections
    ELSE SortOuter(SortInner(connections, i, i + 1), i + 1)

\* Variant of the sort that leaves the slice as the map gave it; C20 must
\* tell it from SortConnections.
SortConnections_AsIterated(connections) == connections

\* "Sort connections by timestamp": the two nested loops.
SortConnections(connections) == SortOuter(connections, 1)

\* The orders in which a range over the map timeGroups may yield its keys.
MapOrders(timeGroups) ==
    LET n == Cardinality(DOMAIN timeGroups)
    IN  {o \in [1..n -> DOMAIN timeGroups] : \A i \in 1..n : \A j \in 1..n : o[i] = o[j] => i = j}

\* What a failed GetDashboardData call returns: nil and an error.
NoDashboard ==
    [ok |-> FALSE, TimeRange |-> "", TotalRequests |-> 0, ApprovedCount |-> 0,
     RejectedCount |-> 0, Connections |-> << >>, Requests |-> << >>]

\* The map timeGroups after the row loop of a GetDashboardData call.
TimeGroups(table, timeRange, now) ==
    ScanRows(Query(table, StartTimestamp(timeRange, now), now),
             ScanStart, getIntervalMinutes(timeRange)).timeGroups

\* GetDashboardData.  st is what storage does for the call ("ok", "nil",
\* "err"); order is the order in which the range over timeGroups yields keys.
GetDashboardData(table, timeRange, now, st, order) ==
    IF st \in {"nil", "err"} THEN NoDashboard
    ELSE LET startTimestamp == StartTimestamp(timeRange, now)
             endTimestamp == now
             rows == Query(table, startTimestamp, endTimestamp)
             intervalMinutes == getIntervalMinutes(timeRange)
             acc == ScanRows(rows, ScanStart, intervalMinutes)
             connections == [i \in 1..Len(order) |-> acc.timeGroups[order[i]]]
         IN  [ok |-> TRUE,
              TimeRange |-> timeRange,
              TotalRequests |-> acc.totalRequests,
              ApprovedCount |-> acc.approvedCount,
              RejectedCount |-> acc.rejectedCount,
              Connections |-> SortConnections(connections),
              Requests |-> acc.requests]

\* The range keys callers pass: the five of the table and one that is not
\* in it.
RangeKeys == {"1h", "6h", "24h", "7d", "30d", "2h"}

\* The range keys the front end calls with in the explored runs.
AskedKeys == {"1h", "2h"}

\* The instants the wall clock is read at in the runs with a dashboard:
\* two 5-minute boundaries, one hour after the first, and a second later.
Instants == {300, 600, 3900, 3901}

\* No GetDashboardData call yet.
DashInit ==
    dashboard = [timeRange |-> "", now |-> 0, order |-> << >>, data |-> NoDashboard]

\* Time passes up to one of the given instants.
TimePassesOn(instants) ==
    /\ \E t \in instants : t > clock /\ clock' = t
    /\ UNCHANGED <<blocked_domains, last, storage, logVars, concVars, dashVars, proxyVars>>

\* Time passes.
TimePasses == TimePassesOn(Instants)

\* The front end calls GetDashboardData.
GetDashboardDataCall ==
    /\ \E timeRange \in AskedKeys :
           \E order \in MapOrders(TimeGroups(requests, timeRange, clock)) :
               dashboard' = [timeRange |-> timeRange, now |-> clock, order |-> order,
                             data |-> GetDashboardData(requests, timeRange, clock, "ok", order)]
    /\ UNCHANGED <<ruleVars, logVars, concVars, proxyVars>>

DashNext ==
    \/ ServiceStartup
    \/ LogRequest
    \/ ConsumerReceive
    \/ ConsumerProcess
    \/ TimePasses
    \/ GetDashboardDataCall

\* The rows the requests table has room for in the runs with producers that
\* never stop.
MaxRows == 4

\* A producer calls LogRequest after the MaxEvents calls whose outcome is
\* recorded: the same select on l.logChannel, with only a panic recorded.
LogRequestOngoing ==
    /\ ~Panicked
    /\ Len(outcome) = MaxEvents
    /\ Len(requests) + Len(logChannel) + (IF current = NoEvent THEN 0 ELSE 1) < MaxRows
    /\ LogRequestOutcome \in {"queued", "panic"}
    /\ logChannel' = IF LogRequestOutcome = "queued"
                     THEN Append(logChannel, [id |-> MaxEvents + 1, Approved |-> TRUE])
                     ELSE logChannel
    /\ outcome' = IF LogRequestOutcome = "panic" THEN Append(outcome, "panic")
                  ELSE outcome
    /\ UNCHANGED <<chanState, stopChan, consumer, current, shutdown, requests,
                   queuedAtStop, ruleVars, concVars, dashVars, proxyVars>>

\* The log queue with producers that never stop calling LogRequest and with
\* storage that may fail.
DrainNext ==
    \/ LogNext
    \/ LogRequestOngoing
    \/ StorageChanges

\* The instant the wall clock is read at, after the start, in the runs with
\* all read operations.
ReadInstants == {300}

\* The patterns of the rules in the runs with all read operations.
ReadInputs == { <<" ", "A", "b">>, <<"*", ".", "a">> }

\* The host callers ask about in the runs with all read operations.
ReadHosts == { <<"b", ".", "a">> }

\* The read operations with the operations that fill the rule table, the log
\* queue and the requests table.
ReadsNext ==
    \/ BlockDomainWithTypeCallOn(ReadInputs, {"glob"})
    \/ IsDomainBlockedCallOn(ReadHosts)
    \/ ListBlockedDomainsCall
    \/ ListBlockedDomainsWithInfoCall
    \/ ServiceStartup
    \/ LogRequest
    \/ ConsumerReceive
    \/ ConsumerProcess
    \/ TimePassesOn(ReadInstants)
    \/ GetDashboardDataCall

\* ------------------------------------------------------------ proxy service
\* The outcomes of setMacSystemProxy: every networksetup command succeeded and
\* the system proxy points at the local proxy, or an error is returned and
\* the setting is as it was (listing the services failed) or partly applied.
SetOutcomes(sp) ==
    { [err |-> FALSE, sp |-> "on"],
      [err |-> TRUE, sp |-> sp],
      [err |-> TRUE, sp |-> IF sp = "on" THEN "on" ELSE "partial"] }

\* The outcomes of unsetMacSystemProxy: the proxy is switched off on every
\* network service, or an error is returned and the setting is as it was or
\* partly switched off.
UnsetOutcomes(sp) ==
    { [err |-> FALSE, sp |-> "off"],
      [err |-> TRUE, sp |-> sp],
      [err |-> TRUE, sp |-> IF sp = "off" THEN "off" ELSE "partial"] }

\* PauseProxy: [isPaused, systemProxy, err, exec]; out is the outcome of
\* unsetMacSystemProxy if the call runs it.
PauseProxy(paused, sp, out) ==
    IF paused THEN [isPaused |-> paused, systemProxy |-> sp, err |-> FALSE, exec |-> "none"]
    ELSE IF out.err
         THEN [isPaused |-> paused, systemProxy |-> out.sp, err |-> TRUE, exec |-> "unset"]
         ELSE [isPaused |-> TRUE, systemProxy |-> out.sp, err |-> FALSE, exec |-> "unset"]

\* ResumeProxy: [isPaused, systemProxy, err, exec]; out is the outcome of
\* setMacSystemProxy if the call runs it.  After a successful set the code
\* assigns p.isPaused = true.
ResumeProxy(paused, sp, out) ==
    IF ~paused THEN [isPaused |-> paused, systemProxy |-> sp, err |-> FALSE, exec |-> "none"]
    ELSE IF out.err
         THEN [isPaused |-> paused, systemProxy |-> out.sp, err |-> TRUE, exec |-> "set"]
         ELSE [isPaused |-> TRUE, systemProxy |-> out.sp, err |-> FALSE, exec |-> "set"]

\* strings.LastIndex(s, c) for a one-character c: the Go index of the last
\* occurrence, or -1.
LastIndex(s, c) ==
    IF \E k \in 1..Len(s) : s[k] = c
    THEN (CHOOSE k \in 1..Len(s) : s[k] = c /\ \A j \in (k + 1)..Len(s) : s[j] # c) - 1
    ELSE -1

\* The decimal digits.
Digits == {"0", "1", "2", "3", "4", "5", "6", "7", "8", "9"}

\* The value of a decimal digit.
DigitValue(c) ==
    CASE c = "0" -> 0 [] c = "1" -> 1 [] c = "2" -> 2 [] c = "3" -> 3 [] c = "4" -> 4
      [] c = "5" -> 5 [] c = "6" -> 6 [] c = "7" -> 7 [] c = "8" -> 8 [] c = "9" -> 9

\* The value of a sequence of decimal digits.
RECURSIVE DecimalValue(_)
DecimalValue(s) ==
    IF s = << >> THEN 0
    ELSE 10 * DecimalValue(SubSeq(s, 1, Len(s) - 1)) + DigitValue(s[Len(s)])

\* strconv.Atoi: [ok, n]; an optional sign followed by one or more decimal
\* digits, anything else is an error.
Atoi(s) ==
    LET signed == s # << >> /\ s[1] \in {"+", "-"}
        digits == IF signed THEN Tail(s) ELSE s
    IN  IF digits = << >> \/ \E k \in 1..Len(digits) : digits[k] \notin Digits
        THEN [ok |-> FALSE, n |-> 0]
        ELSE [ok |-> TRUE,
              n |-> IF signed /\ s[1] = "-" THEN 0 - DecimalValue(digits)
                    ELSE DecimalValue(digits)]

\* The CONNECT handler registered by StartProxy, up to the `go LogRequest`
\* statement.  host[:i] with i = -1 is a run-time panic (slice bounds out of
\* range), which ends the handler before the matcher is asked.
HandleConnect(host, db, st) ==
    LET i == LastIndex(host, ":")
        a == IF i # -1 THEN Atoi(SubSeq(host, i + 2, Len(host)))
             ELSE [ok |-> FALSE, n |-> 0]
        port == IF a.ok THEN a.n ELSE 443
    IN  IF i = -1
        THEN [host |-> host, panicked |-> TRUE, port |-> port,
              modifiedHost |-> << >>, blocked |-> FALSE, event |-> 0]
        ELSE LET modifiedHost == SubSeq(host, 1, i)
             IN  [host |-> host, panicked |-> FALSE, port |-> port,
                  modifiedHost |-> modifiedHost,
                  blocked |-> IsDomainBlocked(db, ToLower(modifiedHost), st),
                  event |-> 0]

\* The proxy service before ServiceStartup: isPaused has Go's zero value.
ProxyInit ==
    /\ isPaused = FALSE
    /\ systemProxy = "off"
    /\ proxyInstance = "nil"
    /\ setByResume = FALSE
    /\ proxyLast = [op |-> "none", err |-> FALSE, exec |-> "none"]
    /\ connects = << >>
    /\ spawned = {}

\* ProxyService.ServiceStartup: registers the instance, sets isPaused and
\* starts the proxy with its CONNECT handler.
ProxyServiceStartup ==
    /\ proxyInstance = "nil"
    /\ proxyInstance' = "started"
    /\ isPaused' = TRUE
    /\ proxyLast' = [op |-> "startup", err |-> FALSE, exec |-> "none"]
    /\ UNCHANGED <<systemProxy, setByResume, connects, spawned,
                   ruleVars, logVars, concVars, dashVars>>

\* The front end calls PauseProxy.
PauseProxyCall ==
    /\ proxyInstance = "started"
    /\ \E out \in UnsetOutcomes(systemProxy) :
           LET r == PauseProxy(isPaused, systemProxy, out)
           IN  /\ isPaused' = r.isPaused
               /\ systemProxy' = r.systemProxy
               /\ setByResume' = IF r.exec = "unset" /\ ~r.err THEN FALSE ELSE setByResume
               /\ proxyLast' = [op |-> "pause", err |-> r.err, exec |-> r.exec]
    /\ UNCHANGED <<proxyInstance, connects, spawned, ruleVars, logVars, concVars, dashVars>>

\* The front end calls ResumeProxy.
ResumeProxyCall ==
    /\ proxyInstance = "started"
    /\ \E out \in SetOutcomes(systemProxy) :
           LET r == ResumeProxy(isPaused, systemProxy, out)
           IN  /\ isPaused' = r.isPaused
               /\ systemProxy' = r.systemProxy
               /\ setByResume' = IF r.exec = "set" /\ ~r.err THEN TRUE ELSE setByResume
               /\ proxyLast' = [op |-> "resume", err |-> r.err, exec |-> r.exec]
    /\ UNCHANGED <<proxyInstance, connects, spawned, ruleVars, logVars, concVars, dashVars>>

\* ProxyService.ServiceShutdown on macOS: reverts the system proxy if the
\* service is not paused; a failure is only logged.
ProxyServiceShutdown ==
    /\ proxyInstance = "started"
    /\ proxyInstance' = "stopped"
    /\ IF ~isPaused
       THEN \E out \in UnsetOutcomes(systemProxy) :
                /\ systemProxy' = out.sp
                /\ proxyLast' = [op |-> "shutdown", err |-> FALSE, exec |-> "unset"]
       ELSE /\ systemProxy' = systemProxy
            /\ proxyLast' = [op |-> "shutdown", err |-> FALSE, exec |-> "none"]
    /\ UNCHANGED <<isPaused, setByResume, connects, spawned,
                   ruleVars, logVars, concVars, dashVars>>

\* The CONNECT requests that reach the handler in the explored runs.
MaxConnects == 2

\* The hosts of the CONNECT requests in the explored runs: with a port, with
\* text that is no number after the colon, with nothing after the colon, and
\* without a colon.
ConnectHosts ==
    { <<"b", ".", "a", ":", "8", "0">>, <<"A", "b", ":", "x">>, <<"a", ":">>,
      <<"b", ".", "a">> }

\* A CONNECT request arrives and the handler runs up to `go LogRequest`.
HandleConnectCall ==
    /\ proxyInstance = "started"
    /\ Len(connects) < MaxConnects
    /\ \E host \in ConnectHosts :
           LET r == HandleConnect(host, blocked_domains, storage)
           IN  /\ connects' = Append(connects, r)
               /\ spawned' = IF r.panicked THEN spawned
                             ELSE spawned \cup {Len(connects) + 1}
    /\ UNCHANGED <<isPaused, systemProxy, proxyInstance, setByResume, proxyLast,
                   ruleVars, logVars, concVars, dashVars>>

\* The goroutine started by `go LogRequest(...)` for a CONNECT request runs:
\* Approved is false when the matcher answered blocked.
ConnectLogRequest ==
    /\ \E k \in spawned :
           /\ LogRequestSend(~connects[k].blocked)
           /\ connects' = [connects EXCEPT ![k].event = Len(outcome) + 1]
           /\ spawned' = spawned \ {k}
    /\ UNCHANGED <<isPaused, systemProxy, proxyInstance, setByResume, proxyLast,
                   ruleVars, concVars, dashVars>>

\* The patterns and dialects of the rules in the runs with CONNECT requests.
ProxyInputs == { <<" ", "A", "b">>, <<"*", ".", "a">> }
ProxyTypes == {"exact", "glob"}

ProxyNext ==
    \/ ProxyServiceStartup
    \/ PauseProxyCall
    \/ ResumeProxyCall
    \/ ProxyServiceShutdown
    \/ HandleConnectCall
    \/ ConnectLogRequest
    \/ BlockDomainWithTypeCallOn(ProxyInputs, ProxyTypes)
    \/ ServiceStartup
    \/ ConsumerReceive
    \/ ConsumerProcess

\* Every operation of the log pipeline: LogRequest, the consumer, shutdown
\* and GetDashboardData.
PipelineNext ==
    \/ LogNext
    \/ GetDashboardDataCall

\* ------------------------------------------------------------ specifications
Init == RuleInit /\ LogInit /\ ConcInit /\ DashInit /\ ProxyInit

\* The rule store used by sequential callers, storage healthy.
SpecRules == Init /\ [][RuleNext]_vars

\* The rule store with its list operations and with storage that may fail.
SpecStore == Init /\ [][StoreNext]_vars

\* The log queue, its consumer and shutdown, storage healthy.
SpecLog == Init /\ [][LogNext]_vars

\* The log queue with a consumer goroutine that the Go scheduler runs
\* whenever it can take a step.
SpecLogFair ==
    /\ SpecLog
    /\ WF_vars(ConsumerReceive)
    /\ WF_vars(ConsumerProcess)
    /\ WF_vars(ConsumerStop)
    /\ WF_vars(ConsumerDrainReceive)
    /\ WF_vars(ConsumerReturn)

\* The log queue, its consumer and shutdown together with dashboard calls,
\* storage healthy.
SpecPipeline == Init /\ [][PipelineNext]_vars

\* The proxy service: pause, resume and shutdown, and the CONNECT handler with
\* the rule store and the log queue behind it.
SpecProxy == Init /\ [][ProxyNext]_vars

\* The log queue with producers that never stop, a consumer goroutine and a
\* ServiceShutdown call that run whenever they can take a step, and a select
\* that takes the stop case at some time when it is ready again and again.
SpecDrainFair ==
    /\ Init /\ [][DrainNext]_vars
    /\ WF_vars(ConsumerReceive)
    /\ WF_vars(ConsumerProcess)
    /\ SF_vars(ConsumerStop)
    /\ WF_vars(ConsumerDrainReceive)
    /\ WF_vars(ConsumerReturn)
    /\ WF_vars(ShutdownWaitReturns)
    /\ WF_vars(ShutdownClose)

\* The read operations of the rule store and of the log service, called
\* between the calls that fill the two tables and the log queue.
SpecReads == Init /\ [][ReadsNext]_vars

\* Concurrent BlockDomain callers contending for the write lock.
SpecConc == Init /\ [][ConcNext]_vars

\* The log queue in normal operation with time passing and dashboard calls,
\* storage healthy.
SpecDash == Init /\ [][DashNext]_vars

\* ------------------------------------------------- claims on the rule store
\* strings.ToUpper on one character.
Upper(c) == IF c = "a" THEN "A" ELSE IF c = "b" THEN "B" ELSE c

\* p written in every letter casing.
RECURSIVE Casings(_)
Casings(p) ==
    IF p = << >> THEN {<< >>}
    ELSE {<<c>> \o q : c \in {Lower(Head(p)), Upper(Head(p))}, q \in Casings(Tail(p))}

\* The dialect a call's filterType argument stands for.
Coerced(t) == IF t \in {"exact", "glob", "regex"} THEN t ELSE "exact"

\* The pattern a call BlockDomainWithType(p, t) stores.
StoredPattern(p, t) ==
    IF Coerced(t) = "regex" THEN TrimSpace(p) ELSE ToLower(TrimSpace(p))

\* sub occurs in s at position i.
OccursAt(sub, s, i) == i + Len(sub) - 1 <= Len(s) /\ SubSeq(s, i, i + Len(sub) - 1) = sub

\* strings.Contains
Contains(s, sub) == \E i \in 1..(Len(s) + 1) : OccursAt(sub, s, i)

\* Every character of s is a letter or a blank: s has no pattern operator.
IsLiteral(s) == \A i \in 1..Len(s) : s[i] \in {"a", "b", "A", "B", " "}

\* C3 as stated: once BlockDomainWithType(p, "exact") has returned true,
\* IsDomainBlocked(p) is true for p in every letter casing, whatever the rule
\* store held before.
C3_ExactBlockedAnyState ==
    (last.op = "block" /\ last.ftype = "exact" /\ last.ret)
        => \A q \in Casings(last.arg) : IsDomainBlocked(blocked_domains, q, "ok")

\* C3 amended: in every reachable rule store that holds no glob or regex rule
\* under the pattern lowercase(trim(p)), a call BlockDomainWithType(p, "exact")
\* or BlockDomain(p) that returns true makes IsDomainBlocked true for p in
\* every letter casing.
C3_ExactBlockedUnlessShadowed ==
    \A p \in Patterns :
        LET r == BlockDomainWithType(blocked_domains, p, "exact", clock, "ok")
            b == BlockDomain(blocked_domains, p, clock, "ok")
            shadowed == \E row \in blocked_domains :
                            /\ row.domain = ToLower(TrimSpace(p))
                            /\ row.filter_type # "exact"
        IN  /\ b = r
            /\ r.ret = (TrimSpace(p) # << >>)
            /\ (r.ret /\ ~shadowed) =>
                   \A q \in Casings(p) : IsDomainBlocked(r.db, q, "ok")

\* C3 witness: an exact rule was added for a blank-padded mixed-case pattern
\* beside another rule, and every casing of it is blocked.
C3_Witness ==
    /\ last.op = "block" /\ last.ftype = "exact" /\ last.ret
    /\ last.arg = <<" ", "A", "b">>
    /\ Cardinality(blocked_domains) = 2
    /\ \E row \in blocked_domains : row.domain = <<"a", "b">> /\ row.filter_type = "exact"
    /\ \A q \in Casings(last.arg) : IsDomainBlocked(blocked_domains, q, "ok")

\* A glob pattern read as the claim reads it: "*" any sequence, "?" any single
\* character, every other character as the expression engine reads it.
GlobAsExpression(pattern) ==
    ReplaceAll(ReplaceAll(pattern, "*", <<".", "*">>), "?", <<".">>)

\* The whole of t, from its first to its last character, matches expression re.
WholeMatch(re, t) ==
    LET alts == SplitAlt(re, << >>)
    IN  /\ Compiles(re)
        /\ \E k \in 1..Len(alts) : MatchFrom(ParseAlt(alts[k], << >>)[2], 1, t, 1, TRUE)

\* C4 as stated: a stored glob rule matches a candidate only when the whole
\* normalized candidate matches the pattern (never a prefix, suffix or
\* substring match), and with only the rule "*.a" stored, "b.a" is blocked and
\* "a" is not.
C4_GlobWholeCandidate ==
    /\ \A row \in blocked_domains : row.filter_type = "glob" =>
           \A h \in Hosts :
               LET d == ToLower(TrimSpace(h))
               IN  (d # << >> /\ RowMatches(row, d))
                       => WholeMatch(GlobAsExpression(ToLower(row.domain)), d)
    /\ (\A row \in blocked_domains :
            row.domain = <<"*", ".", "a">> /\ row.filter_type = "glob")
           => /\ blocked_domains # {} => IsDomainBlocked(blocked_domains, <<"b", ".", "a">>, "ok")
              /\ ~IsDomainBlocked(blocked_domains, <<"a">>, "ok")

\* strings.HasPrefix
HasPrefix(s, pre) == OccursAt(pre, s, 1)

\* strings.HasSuffix
HasSuffix(s, suf) == Len(suf) <= Len(s) /\ OccursAt(suf, s, Len(s) - Len(suf) + 1)

\* Regex patterns tried in every reachable state besides the stored ones.
RegexProbes == { <<"a", "b">>, <<"b", "$">> }

\* C5: a regex rule is stored as written and searched for anywhere in the
\* normalized candidate: a pattern of plain characters blocks exactly the
\* candidates that contain it, "^" in front restricts it to a prefix and "$"
\* behind to a suffix; a candidate the rule matches is blocked.
C5_RegexUnanchored ==
    LET rows == UNION {BlockDomainWithType(blocked_domains, p, "regex", clock, "ok").db :
                           p \in RegexProbes}
    IN  \A row \in rows : row.filter_type = "regex" =>
            LET pat == row.domain
            IN  \A h \in Hosts :
                    LET d == ToLower(TrimSpace(h))
                        m == RowMatches(row, d)
                    IN  d # << >> =>
                        /\ IsLiteral(pat) => (m <=> Contains(d, pat))
                        /\ (Head(pat) = "^" /\ IsLiteral(Tail(pat)))
                               => (m <=> HasPrefix(d, Tail(pat)))
                        /\ (pat[Len(pat)] = "$" /\ IsLiteral(SubSeq(pat, 1, Len(pat) - 1)))
                               => (m <=> HasSuffix(d, SubSeq(pat, 1, Len(pat) - 1)))
                        /\ m => IsDomainBlocked(blocked_domains \cup {row}, h, "ok")
                        /\ IsDomainBlocked({row}, h, "ok") <=> m

\* C5 witness: with only regex rules stored, one of them anchored with "^", a
\* candidate that merely starts with the pattern was found blocked.
C5_Witness ==
    /\ last.op = "isblocked" /\ last.ret
    /\ last.arg = <<" ", "A", "b">>
    /\ blocked_domains # {}
    /\ \A row \in blocked_domains : row.filter_type = "regex" /\ row.domain = <<"^", "a">>

\* C6 as stated: UnblockDomain called twice on a non-empty pattern returns
\* true both times, and after the first call IsDomainBlocked is false for
\* that pattern.
C6_UnblockThenNotBlocked ==
    /\ \A p \in Patterns : TrimSpace(p) # << >> =>
           LET r1 == UnblockDomain(blocked_domains, p, "ok")
           IN  r1.ret /\ UnblockDomain(r1.db, p, "ok").ret
    /\ (last.op = "unblock" /\ last.ret)
           => ~IsDomainBlocked(blocked_domains, last.arg, "ok")

\* C6 amended: UnblockDomain called twice on a non-empty pattern returns true
\* both times; the first call removes exactly the rule stored under
\* lowercase(trim(p)), if any, and the second changes nothing; afterwards
\* IsDomainBlocked is false for the pattern unless a remaining rule matches it.
C6_UnblockIdempotent ==
    \A p \in Patterns : TrimSpace(p) # << >> =>
        LET d == ToLower(TrimSpace(p))
            r1 == UnblockDomain(blocked_domains, p, "ok")
            r2 == UnblockDomain(r1.db, p, "ok")
        IN  /\ r1.ret /\ r2.ret
            /\ r2.db = r1.db
            /\ \A row \in r1.db : row.domain # d
            /\ \A row \in blocked_domains : row.domain # d => row \in r1.db
            /\ r1.db \subseteq blocked_domains
            /\ (\A row \in r1.db : ~RowMatches(row, d)) => ~IsDomainBlocked(r1.db, p, "ok")

\* C6 witness: UnblockDomain was called with a blank-padded mixed-case
\* pattern, the rule under its lower-case form is gone, another rule is left.
C6_Witness ==
    /\ last.op = "unblock" /\ last.ret
    /\ last.arg = <<" ", "A", "b">>
    /\ Cardinality(blocked_domains) = 1
    /\ \A row \in blocked_domains : row.domain # <<"a", "b">>

\* C7: a valid BlockDomainWithType call whose stored pattern is already a
\* rule's pattern returns true and leaves the table as it is; and no step
\* changes a rule that stays in the table.
C7_InsertIfAbsent ==
    /\ [](\A p \in Patterns : \A t \in TypeInputs :
             LET r == BlockDomainWithType(blocked_domains, p, t, clock, "ok")
                 key == StoredPattern(p, t)
             IN  (/\ key # << >>
                  /\ (Coerced(t) = "regex" => Compiles(key))
                  /\ \E row \in blocked_domains : row.domain = key)
                     => (r.ret /\ r.db = blocked_domains))
    /\ [][\A row \in blocked_domains :
              (\E kept \in blocked_domains' : kept.domain = row.domain)
                  => row \in blocked_domains']_ruleVars

\* C7 witness: a call returned true for a pattern that an older rule of
\* another dialect holds, and that rule is the only one under the pattern.
C7_Witness ==
    /\ last.op = "block" /\ last.ret
    /\ \E row \in blocked_domains :
           /\ row.domain = StoredPattern(last.arg, last.ftype)
           /\ row.filter_type # Coerced(last.ftype)
           /\ row.created_at < clock
           /\ \A other \in blocked_domains : other.domain = row.domain => other = row

\* C8: a BlockDomainWithType call whose pattern is empty after trimming, or
\* whose dialect is regex and whose pattern does not compile, returns false
\* and leaves the table as it is; UnblockDomain and IsDomainBlocked return
\* false for empty or blank input, and the table is as it was.
C8_ValidationNoPartialState ==
    /\ ~Compiles(<<"*", ".", "a">>) /\ ~Compiles(<<"a", "*", "*">>)
    /\ \A p \in Patterns :
           /\ \A t \in TypeInputs :
                  LET r == BlockDomainWithType(blocked_domains, p, t, clock, "ok")
                  IN  (TrimSpace(p) = << >> \/ (t = "regex" /\ ~Compiles(TrimSpace(p))))
                          => (~r.ret /\ r.db = blocked_domains)
           /\ TrimSpace(p) = << >> =>
                  LET u == UnblockDomain(blocked_domains, p, "ok")
                  IN  /\ ~u.ret /\ u.db = blocked_domains
                      /\ ~IsDomainBlocked(blocked_domains, p, "ok")
                      /\ ~BlockDomain(blocked_domains, p, clock, "ok").ret
    /\ (last.op \in {"block", "unblock"} /\ TrimSpace(last.arg) = << >>) => ~last.ret

\* C8 witness: a regex that does not compile was refused while the table
\* held rules.
C8_Witness ==
    /\ last.op = "block" /\ last.ftype = "regex" /\ ~last.ret
    /\ last.arg = <<"*", ".", "a">>
    /\ blocked_domains # {}

\* C21: an exact rule matches a candidate exactly when the trimmed,
\* lower-cased candidate equals the stored pattern; with one exact rule p as
\* the only rule, p with a character appended, a subdomain of p and every
\* other different candidate are not blocked, and p is.
C21_ExactMatchesEqualOnly ==
    /\ \A row \in blocked_domains : row.filter_type = "exact" =>
           \A h \in Hosts :
               LET d == ToLower(TrimSpace(h))
               IN  d # << >> => (RowMatches(row, d) <=> d = row.domain)
    /\ \A row \in blocked_domains :
           (row.filter_type = "exact" /\ blocked_domains = {row}) =>
               /\ IsDomainBlocked(blocked_domains, row.domain, "ok")
               /\ ~IsDomainBlocked(blocked_domains, row.domain \o <<"x">>, "ok")
               /\ ~IsDomainBlocked(blocked_domains, <<"b", ".">> \o row.domain, "ok")
               /\ \A h \in Hosts :
                      IsDomainBlocked(blocked_domains, h, "ok")
                          <=> ToLower(TrimSpace(h)) = row.domain

\* C21 witness: with the exact rule "*.a" as the only rule, the candidate
\* "b.a", which differs from the pattern, was asked for and was not blocked.
C21_Witness ==
    /\ blocked_domains # {}
    /\ \A row \in blocked_domains :
           row.filter_type = "exact" /\ row.domain = <<"*", ".", "a">>
    /\ last.op = "isblocked" /\ ~last.ret
    /\ last.arg = <<"b", ".", "a">>

\* C22: for a candidate that is not empty after trimming, an IsDomainBlocked
\* call returns true exactly when some stored rule matches the candidate
\* under the rule's dialect, and the row loop gives that result in whatever
\* order it scans the rules.
C22_AnyRuleAnyOrder ==
    last.op = "isblocked" =>
        LET d == ToLower(TrimSpace(last.arg))
            some == \E row \in blocked_domains :
                        \/ row.filter_type = "exact" /\ d = row.domain
                        \/ row.filter_type = "glob" /\ matchGlob(d, row.domain)[1]
                        \/ row.filter_type = "regex" /\ matchRegex(d, row.domain)[1]
        IN  d # << >> =>
                /\ last.ret <=> some
                /\ IsDomainBlocked(blocked_domains, last.arg, "ok") <=> some
                /\ \A scan \in Scans(blocked_domains) : ScanRules(scan, d) <=> some

\* C22 witness: with two rules stored of which exactly one matches the
\* candidate, the candidate was found blocked.
C22_Witness ==
    /\ last.op = "isblocked" /\ last.ret
    /\ Cardinality(blocked_domains) = 2
    /\ Cardinality({row \in blocked_domains :
                       RowMatches(row, ToLower(TrimSpace(last.arg)))}) = 1

\* C23: every stored rule has a pattern that is trimmed and not empty, no two
\* rules share a pattern, the dialect is exact, glob or regex, a regex
\* pattern compiles, an exact or glob pattern is in lower case, and a regex
\* pattern is stored as the caller wrote it, trimmed.
C23_RuleStoreInvariant ==
    /\ \A row \in blocked_domains :
           /\ row.domain # << >>
           /\ TrimSpace(row.domain) = row.domain
           /\ row.filter_type \in {"exact", "glob", "regex"}
           /\ row.filter_type = "regex" => Compiles(row.domain)
           /\ row.filter_type \in {"exact", "glob"} => ToLower(row.domain) = row.domain
           /\ \A other \in blocked_domains : other.domain = row.domain => other = row
    /\ (last.op = "block" /\ last.ret /\ last.ftype = "regex")
           => \E row \in blocked_domains : row.domain = TrimSpace(last.arg)

\* C23 witness: a regex rule with a capital letter is stored as written
\* beside an exact rule in lower case.
C23_Witness ==
    /\ \E row \in blocked_domains :
           row.filter_type = "regex" /\ row.domain = <<"A", "b">>
    /\ \E row \in blocked_domains :
           row.filter_type = "exact" /\ row.domain = <<"a", "b">>

\* C24: a call with a filter type other than exact, glob and regex does what
\* the call with exact does; the rule it adds is an exact rule, which matches
\* the candidates equal to its pattern and no other.
C24_UnknownTypeIsExact ==
    /\ \A p \in Patterns :
           LET r == BlockDomainWithType(blocked_domains, p, "invalid", clock, "ok")
               e == BlockDomainWithType(blocked_domains, p, "exact", clock, "ok")
           IN  /\ r = e
               /\ r.ret <=> TrimSpace(p) # << >>
               /\ \A row \in r.db \ blocked_domains :
                      /\ row.filter_type = "exact"
                      /\ row.domain = ToLower(TrimSpace(p))
                      /\ \A h \in AskedHosts :
                             LET d == ToLower(TrimSpace(h))
                             IN  d # << >> => (RowMatches(row, d) <=> d = row.domain)
    /\ \A row \in blocked_domains : row.filter_type # "invalid"

\* C24 witness: a call with an unrecognized filter type and a pattern of
\* pattern operators returned true, the rule is stored as exact, and a
\* candidate the pattern would match as a glob is not blocked.
C24_Witness ==
    /\ last.op = "block" /\ last.ftype = "invalid" /\ last.ret
    /\ last.arg = <<"*", ".", "a">>
    /\ blocked_domains # {}
    /\ \A row \in blocked_domains : row.domain = <<"*", ".", "a">> /\ row.filter_type = "exact"
    /\ ~IsDomainBlocked(blocked_domains, <<"b", ".", "a">>, "ok")
    /\ IsDomainBlocked(blocked_domains, <<"*", ".", "a">>, "ok")

\* C30 as stated: after BlockDomainWithType(p, d) has returned true for a
\* recognized dialect d, whatever the store held before, the store holds a
\* rule with the normalized p as pattern and d as dialect.
C30_StoredWithDialect ==
    (last.op = "block" /\ last.ret /\ last.ftype \in {"exact", "glob", "regex"})
        => \E row \in blocked_domains :
               /\ row.domain = StoredPattern(last.arg, last.ftype)
               /\ row.filter_type = last.ftype

\* C30 amended: after BlockDomainWithType(p, d) has returned true for a
\* recognized dialect d, the store holds exactly one rule with the normalized
\* p as pattern; its dialect is d when no rule had that pattern before the
\* call, and otherwise it is the rule that was there, with its dialect.
C30_StoredOrKept ==
    \A p \in Patterns : \A d \in {"exact", "glob", "regex"} :
        LET r == BlockDomainWithType(blocked_domains, p, d, clock, "ok")
            key == StoredPattern(p, d)
            before == {row \in blocked_domains : row.domain = key}
            after == {row \in r.db : row.domain = key}
        IN  r.ret =>
                /\ Cardinality(after) = 1
                /\ before # {} => after = before
                /\ before = {} => \A row \in after : row.filter_type = d
                /\ \A row \in r.db : row.domain # key => row \in blocked_domains

\* C30 witness: a glob rule was added under a pattern no rule had, and a
\* candidate is now blocked by it.
C30_Witness ==
    /\ last.op = "block" /\ last.ret /\ last.ftype = "glob"
    /\ last.arg = <<"*", ".", "a">>
    /\ \E row \in blocked_domains :
           /\ row.domain = <<"*", ".", "a">> /\ row.filter_type = "glob"
           /\ row.created_at = clock
    /\ IsDomainBlocked(blocked_domains, <<"b", ".", "a">>, "ok")

\* The second in which the stored rule with pattern d was created.
CreatedOf(d) == (CHOOSE row \in blocked_domains : row.domain = d).created_at

\* Every listing of the store holds each stored rule exactly once, with the
\* creation seconds never increasing along the list.
ListsEveryRuleBySecond ==
    \A scan \in Scans(blocked_domains) :
        LET L == ListBlockedDomains(blocked_domains, "ok", scan)
            I == ListBlockedDomainsWithInfo(blocked_domains, "ok", scan)
        IN  /\ Len(L) = Cardinality(blocked_domains)
            /\ Len(I) = Cardinality(blocked_domains)
            /\ \A row \in blocked_domains :
                   /\ Cardinality({i \in 1..Len(L) : L[i] = row.domain}) = 1
                   /\ Cardinality({i \in 1..Len(I) :
                          I[i] = [Domain |-> row.domain,
                                  FilterType |-> row.filter_type,
                                  CreatedAt |-> row.created_at]}) = 1
            /\ \A i, j \in 1..Len(L) :
                   i < j => /\ CreatedOf(L[i]) >= CreatedOf(L[j])
                            /\ I[i].CreatedAt >= I[j].CreatedAt
            /\ blocked_domains = {} => L = << >> /\ I = << >>

\* C25 as stated: ListBlockedDomains and ListBlockedDomainsWithInfo return
\* every stored rule exactly once, and a rule created later appears before
\* every rule created earlier: whenever a rule is added, every listing of the
\* store puts it first.
C25_LaterRuleListedFirst ==
    /\ []ListsEveryRuleBySecond
    /\ [][\A new \in blocked_domains' \ blocked_domains :
              \A scan \in Scans(blocked_domains') :
                  /\ ListBlockedDomains(blocked_domains', "ok", scan)[1] = new.domain
                  /\ ListBlockedDomainsWithInfo(blocked_domains', "ok", scan)[1].Domain
                         = new.domain]_vars

\* C25, amended: ListBlockedDomains and ListBlockedDomainsWithInfo return
\* every stored rule exactly once, ordered by descending stored creation time,
\* which has one-second resolution: a rule created in a later second appears
\* before every rule created in an earlier second, and rules created within
\* the same second appear in either order.  For an empty store both return an
\* empty sequence.
C25_ListedNewestSecondFirst ==
    /\ ListsEveryRuleBySecond
    /\ \A scan \in Scans(blocked_domains) :
           LET L == ListBlockedDomains(blocked_domains, "ok", scan)
           IN  \A i, j \in 1..Len(L) :
                   CreatedOf(L[i]) > CreatedOf(L[j]) => i < j
    /\ \A r1, r2 \in blocked_domains :
           (r1 # r2 /\ r1.created_at = r2.created_at)
               => \E scan \in Scans(blocked_domains) :
                      LET L == ListBlockedDomains(blocked_domains, "ok", scan)
                      IN  \E i, j \in 1..Len(L) :
                              i < j /\ L[i] = r1.domain /\ L[j] = r2.domain
    /\ (last.op \in {"list", "listinfo"} /\ last.st = "ok")
           => Len(last.ret) = Cardinality(blocked_domains)

\* Two rules created in different seconds were listed, the newer one first.
C25_Witness ==
    /\ last.op = "list"
    /\ last.st = "ok"
    /\ \E r1, r2 \in blocked_domains :
           /\ blocked_domains = {r1, r2}
           /\ r1.created_at > r2.created_at
           /\ last.ret = <<r1.domain, r2.domain>>

\* C26: when storage is unavailable (no service or no database handle, or a
\* failing query or exec) BlockDomainWithType and UnblockDomain return false
\* and leave the store as it is, IsDomainBlocked returns false, and the list
\* operations return an empty sequence; every call made while storage was
\* failing returned one of these values.
C26_FailuresBecomeSentinels ==
    /\ \A st \in {"nil", "err"} :
           /\ \A p \in Patterns, t \in TypeInputs :
                  BlockDomainWithType(blocked_domains, p, t, clock, st)
                      = [ret |-> FALSE, db |-> blocked_domains]
           /\ \A p \in Patterns :
                  UnblockDomain(blocked_domains, p, st)
                      = [ret |-> FALSE, db |-> blocked_domains]
           /\ \A h \in Hosts : ~IsDomainBlocked(blocked_domains, h, st)
           /\ \A scan \in Scans(blocked_domains) :
                  /\ ListBlockedDomains(blocked_domains, st, scan) = << >>
                  /\ ListBlockedDomainsWithInfo(blocked_domains, st, scan) = << >>
    /\ (last.op # "none" /\ last.st # "ok")
           => IF last.op \in {"list", "listinfo"} THEN last.ret = << >>
              ELSE last.ret = FALSE

\* A host that a stored glob rule matches was asked about while statements failed,
\* and was reported not blocked.
C26_Witness ==
    /\ last.op = "isblocked"
    /\ last.st = "err"
    /\ last.arg = <<"b", ".", "a">>
    /\ \E row \in blocked_domains :
           row.domain = <<"*", ".", "a">> /\ row.filter_type = "glob"
    /\ IsDomainBlocked(blocked_domains, last.arg, "ok")
    /\ ~last.ret

\* ------------------------------------------------- claims on the log queue
\* The events that have a row in the requests table.
Persisted == {requests[k].event : k \in 1..Len(requests)}

\* The events a LogRequest call placed into logChannel.
Queued == {k \in 1..Len(outcome) : outcome[k] = "queued"}

C2_LogRequestNeverFails ==
    \A k \in 1..Len(outcome) : outcome[k] \in {"notready", "queued", "full"}

\* C10 as stated: when ServiceShutdown has returned, every event LogRequest
\* placed into logChannel has a row in the requests table.
C10_OnlyFullQueueLoses ==
    shutdown = "done" => Queued \subseteq Persisted

\* ------------------------------------------- claims on concurrent callers
\* C9: concurrent BlockDomain callers with distinct patterns, each calling
\* again while the call returns false: a call that returned true has its
\* pattern stored and IsDomainBlocked is true for it, a stored pattern is
\* stored once and stays, and when all callers have returned true the table
\* holds exactly the N patterns.
C9_ConcurrentBlocks ==
    /\ \A i \in 1..NumCallers :
           /\ callers[i].ret <=> callers[i].pc = "done"
           /\ callers[i].ret <=> \E row \in blocked_domains : row.domain = CallerPattern(i)
           /\ callers[i].ret => IsDomainBlocked(blocked_domains, CallerPattern(i), "ok")
    /\ \A r1 \in blocked_domains : \A r2 \in blocked_domains :
           r1.domain = r2.domain => r1 = r2
    /\ (\A i \in 1..NumCallers : callers[i].pc = "done")
           => /\ {row.domain : row \in blocked_domains}
                     = {CallerPattern(i) : i \in 1..NumCallers}
              /\ Cardinality(blocked_domains) = NumCallers

\* C9 witness: all callers have returned true, one of them after calls that
\* failed on contention, and all N patterns are stored.
C9_Witness ==
    /\ \A i \in 1..NumCallers : callers[i].pc = "done"
    /\ \E i \in 1..NumCallers : callers[i].attempts = MaxAttempts
    /\ Cardinality(blocked_domains) = NumCallers

\* C11 as stated: once ServiceShutdown has closed stopChan, no LogRequest
\* call places its event into logChannel.
C11_NoAcceptAfterStop ==
    [][(stopChan = "closed" /\ Len(outcome') > Len(outcome))
           => (outcome'[Len(outcome')] # "queued" /\ logChannel' = logChannel)]_vars

\* C12: logChannel never holds more events than its capacity, and a
\* LogRequest call made while it is full returns normally with the event
\* dropped and the contents of logChannel as they were.
C12_BoundedQueue ==
    /\ [](Len(logChannel) <= LogChannelCap)
    /\ [][(/\ chanState = "open"
           /\ Len(logChannel) = LogChannelCap
           /\ Len(outcome') > Len(outcome))
              => (outcome'[Len(outcome')] = "full" /\ logChannel' = logChannel)]_vars

\* C12 witness: the last LogRequest call found logChannel full and dropped
\* its event.
C12_Witness ==
    /\ outcome # << >>
    /\ outcome[Len(outcome)] = "full"
    /\ Len(logChannel) = LogChannelCap

\* C13: the consumer holds at most one event, which it took from the head of
\* logChannel while holding none and which has no row yet; every row belongs
\* to an event LogRequest placed into logChannel, and no event has two rows.
C13_SingleConsumerOnce ==
    /\ [](/\ (current # NoEvent) <=> (consumer \in {"process", "drainProcess"})
          /\ current # NoEvent => current.id \in Queued \ Persisted
          /\ Persisted \subseteq Queued
          /\ \A j \in 1..Len(requests) : \A k \in 1..Len(requests) :
                 requests[j].event = requests[k].event => j = k
          /\ \A k \in 1..Len(logChannel) : logChannel[k].id \in Queued \ Persisted)
    /\ [][Len(logChannel') < Len(logChannel)
              => /\ logChannel' = Tail(logChannel)
                 /\ current = NoEvent
                 /\ current' = Head(logChannel)]_vars

\* C13 witness: two events have a row each and the consumer holds a third
\* that it has just taken from logChannel.
C13_Witness ==
    /\ Len(requests) = 2
    /\ requests[1].event # requests[2].event
    /\ consumer = "process"
    /\ current.id \in Queued \ Persisted

\* C14 as stated: every event LogRequest placed into logChannel eventually
\* has a row, the consumer goroutine being scheduled fairly.
C14_AcceptedEventuallyPersisted ==
    \A id \in 1..MaxEvents : [](id \in Queued => <>(id \in Persisted))

\* C27: the timestamp of a row is the wall-clock time of the step in which
\* the consumer persists it, a step that comes after the LogRequest call that
\* placed the event into logChannel; the wall clock does not go back, so the
\* timestamp is never earlier than the time of that call, no row is stamped
\* later than now, and timestamps never decrease along the table.
C27_StampedWhenPersisted ==
    /\ [](/\ \A k \in 1..Len(requests) : requests[k].timestamp <= clock
          /\ \A j \in 1..Len(requests) : \A k \in 1..Len(requests) :
                 j < k => requests[j].timestamp <= requests[k].timestamp)
    /\ [][clock' >= clock]_vars
    /\ [][Len(requests') > Len(requests)
              => LET row == requests'[Len(requests')]
                 IN  /\ row.timestamp = clock
                     /\ row.event = current.id
                     /\ current.id \in Queued
                     /\ outcome' = outcome]_vars

\* C27 witness: two events were placed into logChannel and persisted; the
\* first row was written before the clock advanced, the second after it.
C27_Witness ==
    /\ Len(requests) = 2
    /\ requests[1].timestamp < requests[2].timestamp
    /\ requests[2].timestamp = clock
    /\ Persisted \subseteq Queued

\* C28: rows are persisted in the order in which the consumer takes the
\* events from logChannel, and for events placed into logChannel by
\* sequential LogRequest calls that is the order of the calls: the row of an
\* earlier call comes before the row of a later call, and when the consumer
\* has taken the event of the later call the event of the earlier call
\* already has a row.
C28_PerSenderFifo ==
    /\ [](/\ \A j \in 1..Len(requests) : \A k \in 1..Len(requests) :
                 j < k => requests[j].event < requests[k].event
          /\ \A a \in Queued : \A b \in Queued :
                 a < b => /\ b \in Persisted => a \in Persisted
                          /\ current.id = b => a \in Persisted
          /\ \A j \in 1..Len(logChannel) : \A k \in 1..Len(logChannel) :
                 j < k => logChannel[j].id < logChannel[k].id)
    /\ [][Len(requests') > Len(requests)
              => /\ requests' = Append(requests, requests'[Len(requests')])
                 /\ requests'[Len(requests')].event = current.id]_vars

\* C28 witness: two events waited in logChannel together and both have a
\* row now, the row of the earlier call first.
C28_Witness ==
    /\ Len(requests) >= 2
    /\ requests[1].event + 1 = requests[2].event
    /\ {requests[1].event, requests[2].event} \subseteq queuedAtStop

\* C29: no operation of the pipeline (LogRequest, the consumer, shutdown,
\* GetDashboardData) updates or deletes a row of the requests table: in every
\* step the table keeps each of its rows, in place and with its field values,
\* and at most grows at its end.
C29_AppendOnly ==
    [][/\ Len(requests') >= Len(requests)
       /\ \A k \in 1..Len(requests) : requests'[k] = requests[k]]_vars

\* C29 witness: rows were written, the dashboard was read after that and
\* ServiceShutdown has returned; the rows are still there.
C29_Witness ==
    /\ Len(requests) >= 2
    /\ shutdown = "done"
    /\ dashboard.timeRange # ""
    /\ dashboard.data.TotalRequests = Len(requests)

\* ------------------------------------------------- claims on the dashboard
\* The data GetDashboardData returns now for range key timeRange when the map
\* of buckets is iterated in the given order.
DataNow(timeRange, order) == GetDashboardData(requests, timeRange, clock, "ok", order)

\* One of the orders the map of buckets may be iterated in.
SomeOrder(timeRange) ==
    CHOOSE o \in MapOrders(TimeGroups(requests, timeRange, clock)) : TRUE

\* The sum of the counts of a sequence of buckets.
RECURSIVE SumCounts(_)
SumCounts(connections) ==
    IF connections = << >> THEN 0
    ELSE Head(connections).Count + SumCounts(Tail(connections))

\* The window of a range key in seconds and its bucket width in minutes, as
\* the table of range keys gives them.
RangeTable(timeRange) ==
    IF timeRange = "1h" THEN [window |-> 3600, minutes |-> 5]
    ELSE IF timeRange = "6h" THEN [window |-> 21600, minutes |-> 30]
    ELSE IF timeRange = "24h" THEN [window |-> 86400, minutes |-> 60]
    ELSE IF timeRange = "7d" THEN [window |-> 604800, minutes |-> 360]
    ELSE IF timeRange = "30d" THEN [window |-> 2592000, minutes |-> 1440]
    ELSE [window |-> 86400, minutes |-> 60]

\* The rows of the requests table whose timestamp lies in the window of
\* timeRange that ends now, both ends included.
InWindow(timeRange) ==
    {k \in 1..Len(requests) :
        /\ clock - RangeTable(timeRange).window <= requests[k].timestamp
        /\ requests[k].timestamp <= clock}

\* C15: in every GetDashboardData result the sum of the buckets' counts
\* equals totalRequests.
C15_BucketSumIsTotal ==
    /\ \A timeRange \in RangeKeys :
           LET d == DataNow(timeRange, SomeOrder(timeRange))
           IN  SumCounts(d.Connections) = d.TotalRequests
    /\ SumCounts(dashboard.data.Connections) = dashboard.data.TotalRequests

\* C15 witness: a call returned three requests in more than one bucket, one
\* of them rejected.
C15_Witness ==
    /\ dashboard.data.ok
    /\ dashboard.data.TotalRequests = 3
    /\ dashboard.data.RejectedCount = 1
    /\ Len(dashboard.data.Connections) = 2

\* C16 as stated: once the consumer has written the row of an accepted
\* event, GetDashboardData counts the event exactly once for every range key,
\* whenever it is called.
C16_DrainedEventCounted ==
    \A k \in 1..Len(requests) : \A timeRange \in RangeKeys :
        LET d == DataNow(timeRange, SomeOrder(timeRange))
        IN  Cardinality({j \in 1..Len(d.Requests) :
                            d.Requests[j].event = requests[k].event}) = 1

\* C16 amended: once the consumer has written the row of an accepted event,
\* the row carries the event's decision and the time of writing, and every
\* GetDashboardData call whose window [now - window, now] contains that time
\* counts the event exactly once in totalRequests and, by its decision, once
\* in approvedCount or in rejectedCount.
C16_DrainedEventCountedInWindow ==
    /\ [](\A timeRange \in RangeKeys :
              LET d == DataNow(timeRange, SomeOrder(timeRange))
                  entries(k) == {j \in 1..Len(d.Requests) :
                                    d.Requests[j].event = requests[k].event}
              IN  /\ \A k \in InWindow(timeRange) :
                         /\ Cardinality(entries(k)) = 1
                         /\ \A j \in entries(k) : d.Requests[j].Decision = requests[k].decision
                  /\ d.TotalRequests = Len(d.Requests)
                  /\ d.ApprovedCount = Cardinality({j \in 1..Len(d.Requests) :
                                                       d.Requests[j].Decision = "approved"})
                  /\ d.RejectedCount = Cardinality({j \in 1..Len(d.Requests) :
                                                       d.Requests[j].Decision # "approved"}))
    /\ [][Len(requests') > Len(requests)
              => /\ requests' = Append(requests, requests'[Len(requests')])
                 /\ requests'[Len(requests')].event = current.id
                 /\ requests'[Len(requests')].timestamp = clock
                 /\ requests'[Len(requests')].decision
                        = (IF current.Approved THEN "approved" ELSE "rejected")]_vars

\* C16 witness: a call made after the consumer wrote the rows of an approved
\* and a rejected event counted one of each.
C16_Witness ==
    /\ dashboard.data.ok
    /\ dashboard.data.ApprovedCount = 1
    /\ dashboard.data.RejectedCount = 1
    /\ dashboard.data.TotalRequests = 2
    /\ Persisted \subseteq Queued
    /\ Len(requests) = 2

\* C17: every bucket's timestamp is a multiple of the bucket width counted
\* from the epoch, and the bucket counts exactly the fetched rows whose
\* timestamp t has floor(t / width) * width equal to it, wherever the window
\* starts.
C17_BucketsAlignedToEpoch ==
    \A timeRange \in RangeKeys :
        LET d == DataNow(timeRange, SomeOrder(timeRange))
            width == getIntervalMinutes(timeRange) * 60
            start(k) == (requests[k].timestamp \div width) * width
        IN  /\ \A i \in 1..Len(d.Connections) :
                   /\ d.Connections[i].Timestamp % width = 0
                   /\ d.Connections[i].Count
                          = Cardinality({k \in InWindow(timeRange) :
                                            start(k) = d.Connections[i].Timestamp})
                   /\ d.Connections[i].Count > 0
            /\ \A k \in InWindow(timeRange) :
                   \E i \in 1..Len(d.Connections) : d.Connections[i].Timestamp = start(k)

\* C17 witness: a "1h" call at 3901, whose window starts at 301, counted the
\* rows written at 600 and at 3901 in the buckets that start at 600 and at
\* 3900.
C17_Witness ==
    /\ dashboard.data.ok
    /\ dashboard.timeRange = "1h"
    /\ dashboard.now = 3901
    /\ Len(dashboard.data.Connections) = 2
    /\ dashboard.data.Connections[1].Timestamp = 600
    /\ dashboard.data.Connections[2].Timestamp = 3900
    /\ \E j \in 1..Len(dashboard.data.Requests) :
           dashboard.data.Requests[j].Timestamp = 3901

\* C18: the window and the bucket width of a range key are those of the
\* table: 1h (1 hour, 5 min), 6h (6 hours, 30 min), 24h (24 hours, 60 min),
\* 7d (7 days, 6 hours), 30d (30 days, 1 day), any other key (24 hours,
\* 60 min); a call uses both for the key it was given.
C18_RangeKeyTable ==
    /\ \A timeRange \in RangeKeys :
           /\ clock - StartTimestamp(timeRange, clock) = RangeTable(timeRange).window
           /\ getIntervalMinutes(timeRange) = RangeTable(timeRange).minutes
    /\ dashboard.data.ok =>
           /\ \A j \in 1..Len(dashboard.data.Requests) :
                  dashboard.data.Requests[j].Timestamp
                      >= dashboard.now - RangeTable(dashboard.timeRange).window
           /\ \A i \in 1..Len(dashboard.data.Connections) :
                  dashboard.data.Connections[i].Timestamp
                      % (RangeTable(dashboard.timeRange).minutes * 60) = 0

\* C18 witness: a call with a key that is not in the table returned a bucket
\* of the default width for a row of the default window.
C18_Witness ==
    /\ dashboard.data.ok
    /\ dashboard.timeRange = "2h"
    /\ dashboard.now = 3900
    /\ Len(dashboard.data.Requests) > 1
    /\ \E i \in 1..Len(dashboard.data.Connections) :
           dashboard.data.Connections[i].Timestamp = 3600

\* C19: GetDashboardData returns and counts exactly the rows whose timestamp
\* t has now - window <= t <= now, each once.
C19_FetchesInclusiveRange ==
    \A timeRange \in RangeKeys :
        LET d == DataNow(timeRange, SomeOrder(timeRange))
        IN  /\ {d.Requests[j].event : j \in 1..Len(d.Requests)}
                   = {requests[k].event : k \in InWindow(timeRange)}
            /\ Len(d.Requests) = Cardinality(InWindow(timeRange))
            /\ d.TotalRequests = Cardinality(InWindow(timeRange))

\* C19 witness: a "1h" call at 3900 returned the row written at 300, the
\* first instant of its window, and the row written at 3900, its last, and
\* not the row written at 0.
C19_Witness ==
    /\ dashboard.data.ok
    /\ dashboard.timeRange = "1h"
    /\ dashboard.now = 3900
    /\ clock = 3900
    /\ Len(requests) = 3
    /\ requests[1].timestamp = 0
    /\ Len(dashboard.data.Requests) = 2
    /\ dashboard.data.Requests[1].Timestamp = 3900
    /\ dashboard.data.Requests[2].Timestamp = 300

\* C20: the buckets come in ascending order of their timestamps, in whatever
\* order the map of buckets was iterated.
C20_BucketsAscending ==
    /\ \A timeRange \in RangeKeys :
           \A order \in MapOrders(TimeGroups(requests, timeRange, clock)) :
               LET c == DataNow(timeRange, order).Connections
               IN  /\ Len(c) = Len(order)
                   /\ \A i \in 1..Len(c) : \A j \in 1..Len(c) :
                          i < j => c[i].Timestamp < c[j].Timestamp
    /\ \A i \in 1..Len(dashboard.data.Connections) :
           \A j \in 1..Len(dashboard.data.Connections) :
               i < j => dashboard.data.Connections[i].Timestamp
                            < dashboard.data.Connections[j].Timestamp

\* C20 witness: a call in which the map gave its three buckets latest first
\* returned them earliest first.
C20_Witness ==
    /\ dashboard.data.ok
    /\ Len(dashboard.order) = 3
    /\ dashboard.order[1] > dashboard.order[2]
    /\ dashboard.order[2] > dashboard.order[3]
    /\ Len(dashboard.data.Connections) = 3
    /\ dashboard.data.Connections[1].Timestamp = dashboard.order[3]

\* ------------------------------------------ further claims on the rule store
\* C31 as stated: for any pattern p and dialect d (exact, glob or regex) for
\* which BlockDomainWithType(p, d) returns true and stores a new rule, a
\* following UnblockDomain(p) with the same text returns true and the store
\* has the contents it had before the add.
C31_AddRemoveRoundTrip ==
    \A p \in RawInputs, d \in {"exact", "glob", "regex"} :
        LET r == BlockDomainWithType(blocked_domains, p, d, clock, "ok")
        IN  (r.ret /\ r.db # blocked_domains)
                => LET u == UnblockDomain(r.db, p, "ok")
                   IN  u.ret /\ u.db = blocked_domains

\* C34: UnblockDomain(p) removes at most the one rule whose stored pattern is
\* lowercase(trim(p)) and BlockDomainWithType adds at most one rule; every
\* other stored rule stays as it is, with its pattern, dialect and creation
\* time, and so every step of the rule store adds or removes at most one rule
\* and changes none.
C34_WritesTouchOneRule ==
    /\ [](/\ \A p \in Patterns :
                 LET u == UnblockDomain(blocked_domains, p, "ok").db
                 IN  /\ u \subseteq blocked_domains
                     /\ blocked_domains \ u
                            = {row \in blocked_domains : row.domain = ToLower(TrimSpace(p))}
                     /\ Cardinality(blocked_domains \ u) <= 1
          /\ \A p \in Patterns, t \in TypeInputs :
                 LET b == BlockDomainWithType(blocked_domains, p, t, clock, "ok").db
                 IN  /\ blocked_domains \subseteq b
                     /\ Cardinality(b \ blocked_domains) <= 1)
    /\ [][Cardinality(blocked_domains' \ blocked_domains)
              + Cardinality(blocked_domains \ blocked_domains') <= 1]_vars

\* C34 witness: an UnblockDomain call has returned true, the store is full,
\* and UnblockDomain on a stored pattern written with blanks and capitals
\* removes that rule and keeps the other.
C34_Witness ==
    /\ last.op = "unblock"
    /\ last.ret
    /\ Cardinality(blocked_domains) = MaxRules
    /\ \E row \in blocked_domains :
           /\ row.domain = <<"a", "b">>
           /\ UnblockDomain(blocked_domains, <<" ", "A", "b">>, "ok").db
                  = blocked_domains \ {row}

\* ---------------------------------------- further claims on the dashboard
\* The sum of the Approved counters of a sequence of buckets.
RECURSIVE SumApproved(_)
SumApproved(connections) ==
    IF connections = << >> THEN 0
    ELSE Head(connections).Approved + SumApproved(Tail(connections))

\* The sum of the Rejected counters of a sequence of buckets.
RECURSIVE SumRejected(_)
SumRejected(connections) ==
    IF connections = << >> THEN 0
    ELSE Head(connections).Rejected + SumRejected(Tail(connections))

\* C36: in every GetDashboardData result approvedCount + rejectedCount =
\* totalRequests, every bucket has count = approved + rejected, the buckets'
\* approved and rejected counters sum to approvedCount and rejectedCount, and
\* there are totalRequests detail rows.
C36_CountersConsistent ==
    LET d == dashboard.data
    IN  /\ d.ApprovedCount + d.RejectedCount = d.TotalRequests
        /\ \A i \in 1..Len(d.Connections) :
               d.Connections[i].Count
                   = d.Connections[i].Approved + d.Connections[i].Rejected
        /\ SumApproved(d.Connections) = d.ApprovedCount
        /\ SumRejected(d.Connections) = d.RejectedCount
        /\ Len(d.Requests) = d.TotalRequests

\* C36 witness: a call returned three requests in two buckets, one bucket
\* holding an approved and a rejected request.
C36_Witness ==
    /\ dashboard.data.ok
    /\ dashboard.data.TotalRequests = 3
    /\ Len(dashboard.data.Connections) = 2
    /\ \E i \in 1..2 : /\ dashboard.data.Connections[i].Approved = 1
                       /\ dashboard.data.Connections[i].Rejected = 1

\* The number of the bucket with timestamp t among the buckets of the window
\* of the last GetDashboardData call, the bucket that holds the start of the
\* window being number 0.
BucketIndex(t) ==
    LET width == RangeTable(dashboard.timeRange).minutes * 60
    IN  (t \div width) - ((dashboard.now - RangeTable(dashboard.timeRange).window) \div width)

\* C37: GetDashboardData emits only buckets with count >= 1, with pairwise
\* distinct timestamps; each is one of the window / bucketWidth + 1 buckets
\* aligned to the epoch that meet the window, so there are at most that many
\* (13 for "1h").
C37_BucketsNonEmptyAndFew ==
    LET c == dashboard.data.Connections
        width == RangeTable(dashboard.timeRange).minutes * 60
        most == RangeTable(dashboard.timeRange).window \div width + 1
    IN  dashboard.data.ok =>
            /\ \A i \in 1..Len(c) : c[i].Count >= 1
            /\ \A i \in 1..Len(c) : \A j \in 1..Len(c) :
                   c[i].Timestamp = c[j].Timestamp => i = j
            /\ \A i \in 1..Len(c) :
                   /\ c[i].Timestamp % width = 0
                   /\ BucketIndex(c[i].Timestamp) \in 0..(most - 1)
            /\ Len(c) <= most
            /\ dashboard.timeRange = "1h" => most = 13

\* C37 witness: a call for "1h" returned the first and the last of the 13
\* buckets that meet its window.
C37_Witness ==
    /\ dashboard.data.ok
    /\ dashboard.timeRange = "1h"
    /\ Len(dashboard.data.Connections) = 2
    /\ BucketIndex(dashboard.data.Connections[1].Timestamp) = 0
    /\ BucketIndex(dashboard.data.Connections[2].Timestamp) = 12

\* ------------------------------------------------ claims on the read operations
\* The position of row in the scan order scan.
PosIn(scan, row) == CHOOSE i \in 1..Len(scan) : scan[i] = row

\* Two scan orders have the rows of every one second in the same order.
SameTieOrder(s1, s2) ==
    \A r1 \in blocked_domains : \A r2 \in blocked_domains :
        r1.created_at = r2.created_at
            => (PosIn(s1, r1) < PosIn(s1, r2) <=> PosIn(s2, r1) < PosIn(s2, r2))

\* A step in which a read operation was called and returned something new.
ReadStep ==
    \/ /\ last'.op \in {"isblocked", "list", "listinfo"}
       /\ \/ last'.op # last.op
          \/ last'.arg # last.arg
          \/ last'.st # last.st
          \/ last'.op \in {"list", "listinfo"} /\ last'.ret # last.ret
    \/ dashboard' # dashboard

\* C35: IsDomainBlocked, ListBlockedDomains, ListBlockedDomainsWithInfo and
\* GetDashboardData leave the rule table, the requests table and the log
\* queue as they are, and what they return is determined by the state and the
\* argument: the same call on the state the call left gives the result the
\* call gave, whatever the order in which the engine scans the rows of a
\* match or Go iterates the map of buckets, the lists depending on the scan
\* only for the order of rules of the same second.
C35_ReadsArePure ==
    /\ [][ReadStep => /\ blocked_domains' = blocked_domains
                      /\ requests' = requests
                      /\ logChannel' = logChannel]_vars
    /\ [][dashboard' # dashboard
              => \A order \in MapOrders(TimeGroups(requests', dashboard'.timeRange, clock')) :
                     GetDashboardData(requests', dashboard'.timeRange, clock', "ok", order)
                         = dashboard'.data]_vars
    /\ [](/\ last.op = "isblocked"
                 => /\ last.ret = IsDomainBlocked(blocked_domains, last.arg, last.st)
                    /\ \A scan \in Scans(blocked_domains) :
                           last.ret = ScanRules(scan, ToLower(TrimSpace(last.arg)))
          /\ last.op = "list"
                 => \E scan \in Scans(blocked_domains) :
                        last.ret = ListBlockedDomains(blocked_domains, last.st, scan)
          /\ last.op = "listinfo"
                 => \E scan \in Scans(blocked_domains) :
                        last.ret = ListBlockedDomainsWithInfo(blocked_domains, last.st, scan)
          /\ \A s1 \in Scans(blocked_domains) : \A s2 \in Scans(blocked_domains) :
                 SameTieOrder(s1, s2)
                     => /\ ListBlockedDomains(blocked_domains, "ok", s1)
                               = ListBlockedDomains(blocked_domains, "ok", s2)
                        /\ ListBlockedDomainsWithInfo(blocked_domains, "ok", s1)
                               = ListBlockedDomainsWithInfo(blocked_domains, "ok", s2)
          /\ \A timeRange \in AskedKeys :
                 LET data == DataNow(timeRange, SomeOrder(timeRange))
                 IN  \A order \in MapOrders(TimeGroups(requests, timeRange, clock)) :
                         DataNow(timeRange, order) = data)

\* C35 witness: with two rules of different seconds stored, an event waiting
\* in the log queue and rows in two buckets, the list and the dashboard have
\* been read and all of it is still there.
C35_Witness ==
    /\ last.op = "list"
    /\ Len(last.ret) = 2
    /\ \E r1 \in blocked_domains : \E r2 \in blocked_domains :
           r1.created_at # r2.created_at
    /\ logChannel # << >>
    /\ dashboard.now = clock
    /\ Len(dashboard.data.Connections) = 2
    /\ Len(requests) = 2

\* ------------------------------------------------ claims on the proxy service
\* C32 as stated: while the proxy service runs, isPaused is false exactly
\* when the system proxy has been set by a successful ResumeProxy and not
\* since unset by a successful PauseProxy; so after a successful ResumeProxy
\* a following PauseProxy runs the unset of the system proxy, and so does
\* ServiceShutdown.
C32_PausedFlagTracksSystemProxy ==
    /\ [](proxyInstance = "started" => (~isPaused <=> setByResume))
    /\ [][(setByResume /\ proxyInstance' = "started" /\ proxyLast' # proxyLast
               /\ proxyLast'.op = "pause")
              => proxyLast'.exec = "unset"]_vars
    /\ [][(setByResume /\ proxyInstance = "started" /\ proxyInstance' = "stopped")
              => proxyLast'.exec = "unset"]_vars

\* The host of a CONNECT request with its port suffix, the last colon and what
\* follows it, removed; a host without a colon has no port suffix.
WithoutPortSuffix(host) ==
    IF LastIndex(host, ":") = -1 THEN host ELSE SubSeq(host, 1, LastIndex(host, ":"))

\* The port of a CONNECT request: the number after the last colon, 443 when
\* there is none.
PortOf(host) ==
    LET i == LastIndex(host, ":")
    IN  IF i # -1 /\ Atoi(SubSeq(host, i + 2, Len(host))).ok
        THEN Atoi(SubSeq(host, i + 2, Len(host))).n
        ELSE 443

\* What C38 says of the k-th CONNECT request, given that the handler reached
\* the matcher: the matcher was asked about the host without its port suffix,
\* the port is the parsed one or 443, one LogRequest is issued once the
\* handler's goroutine has run, and a row persisted for it is "rejected"
\* exactly if the matcher answered blocked.
ConnectLoggedAsMatched(k) ==
    LET c == connects[k]
    IN  /\ c.modifiedHost = WithoutPortSuffix(c.host)
        /\ c.port = PortOf(c.host)
        /\ (k \in spawned) <=> (c.event = 0)
        /\ c.event # 0 => c.event \in 1..Len(outcome)
        /\ \A j \in 1..Len(connects) : (j # k /\ c.event # 0) => connects[j].event # c.event
        /\ \A r \in 1..Len(requests) :
               requests[r].event = c.event
                   => (requests[r].decision = "rejected" <=> c.blocked)

\* C38: for each CONNECT request the handler asks IsDomainBlocked about the
\* host with its port suffix removed (port 443 when none can be parsed) and
\* issues exactly one LogRequest for the attempt, rejected if and only if the
\* matcher answered blocked; the persisted row has the decision accordingly.
C38_ConnectLoggedAsMatched ==
    \A k \in 1..Len(connects) :
        /\ ~connects[k].panicked
        /\ ConnectLoggedAsMatched(k)

\* The same for the CONNECT requests whose host has a colon.
ConnectWithColonLoggedAsMatched ==
    \A k \in 1..Len(connects) :
        LastIndex(connects[k].host, ":") # -1
            => /\ ~connects[k].panicked
               /\ ConnectLoggedAsMatched(k)

\* A CONNECT request for a blocked host with a port was logged and its row
\* persisted as "rejected".
ConnectRejectedRowPersisted ==
    \E k \in 1..Len(connects) :
        /\ connects[k].blocked
        /\ \E r \in 1..Len(requests) :
               requests[r].event = connects[k].event /\ requests[r].decision = "rejected"

\* ------------------------------------------ further claims on the log queue
\* C33 as stated: after ServiceShutdown has signalled stop, the consumer
\* goroutine eventually exits and ServiceShutdown returns, every
\* processLogRequest call returning, also while producers continue to call
\* LogRequest during the drain.
C33_ShutdownTerminates ==
    (shutdown = "waiting") ~> (consumer = "done" /\ shutdown = "done")

====
